---- MODULE Spec2Model ----
(***************************************************************************)
(* Content acquisition and article extraction of the industry news agent:  *)
(* URL routing, the fetch strategy chain, the feed extractors, link        *)
(* discovery and the two batch loops (AsyncWebScraper.scrape_blog_articles *)
(* and IndustryNewsAgent._scrape_articles).                                *)
(*                                                                         *)
(* URLs, hrefs and date strings are TLA+ strings; substring tests, prefix   *)
(* tests, lower() and urlparse are computed character by character.        *)
(***************************************************************************)
EXTENDS Integers, Sequences, FiniteSets, TLC

VARIABLES rt, ft, fd, lk, bt, ag, ar, el, px, ch, ts, wf, sv, cn, cm

vars == <<rt, ft, fd, lk, bt, ag, ar, el, px, ch, ts, wf, sv, cn, cm>>

\* the variables of the scraping pipeline, and those of the services around it
pipeline == <<rt, ft, fd, lk, bt, ag, ar>>

services == <<el, px, ch, ts, wf, sv, cn, cm>>

Off == [pc |-> "off"]

PipelineOff ==
    /\ rt = Off /\ ft = Off /\ fd = Off /\ lk = Off /\ bt = Off /\ ag = Off /\ ar = Off

ServicesOff ==
    /\ el = Off /\ px = Off /\ ch = Off /\ ts = Off
    /\ wf = Off /\ sv = Off /\ cn = Off /\ cm = Off

None == "None"

(***************************************************************************)
(* Bounds of the model.                                                    *)
(***************************************************************************)
MaxSegs == 2
MaxFeedLen == 3
MaxMax == 2
MaxAnchors == 2
MaxSources == 2

(***************************************************************************)
(* String helpers (Python str methods).                                    *)
(***************************************************************************)
Min(a, b) == IF a <= b THEN a ELSE b

Max(a, b) == IF a >= b THEN a ELSE b

StartsWith(s, p) == Len(s) >= Len(p) /\ SubSeq(s, 1, Len(p)) = p

EndsWith(s, p) == Len(s) >= Len(p) /\ SubSeq(s, Len(s) - Len(p) + 1, Len(s)) = p

\* `p in s`
Contains(s, p) ==
    \E i \in 1..(Len(s) - Len(p) + 1) : SubSeq(s, i, i + Len(p) - 1) = p

\* first index of p in s, 0 when absent (str.find, 1-based)
Find(s, p) ==
    IF Contains(s, p)
    THEN CHOOSE i \in 1..(Len(s) - Len(p) + 1) :
            /\ SubSeq(s, i, i + Len(p) - 1) = p
            /\ \A j \in 1..(i - 1) : SubSeq(s, j, j + Len(p) - 1) # p
    ELSE 0

LowerChar(c) ==
    CASE c = "A" -> "a"
      [] c = "B" -> "b"
      [] c = "C" -> "c"
      [] c = "D" -> "d"
      [] c = "E" -> "e"
      [] c = "F" -> "f"
      [] c = "G" -> "g"
      [] c = "H" -> "h"
      [] c = "I" -> "i"
      [] c = "J" -> "j"
      [] c = "K" -> "k"
      [] c = "L" -> "l"
      [] c = "M" -> "m"
      [] c = "N" -> "n"
      [] c = "O" -> "o"
      [] c = "P" -> "p"
      [] c = "Q" -> "q"
      [] c = "R" -> "r"
      [] c = "S" -> "s"
      [] c = "T" -> "t"
      [] c = "U" -> "u"
      [] c = "V" -> "v"
      [] c = "W" -> "w"
      [] c = "X" -> "x"
      [] c = "Y" -> "y"
      [] c = "Z" -> "z"
      [] OTHER -> c

RECURSIVE Lower(_)
Lower(s) ==
    IF Len(s) = 0 THEN ""
    ELSE LowerChar(SubSeq(s, 1, 1)) \o Lower(SubSeq(s, 2, Len(s)))

RECURSIVE RStrip(_, _)
RStrip(s, c) ==
    IF Len(s) > 0 /\ SubSeq(s, Len(s), Len(s)) = c
    THEN RStrip(SubSeq(s, 1, Len(s) - 1), c)
    ELSE s

RECURSIVE LStrip(_, _)
LStrip(s, c) ==
    IF Len(s) > 0 /\ SubSeq(s, 1, 1) = c
    THEN LStrip(SubSeq(s, 2, Len(s)), c)
    ELSE s

Strip(s, c) == LStrip(RStrip(s, c), c)

\* number of occurrences of the one-character string c in s
CountChar(s, c) == Cardinality({i \in 1..Len(s) : SubSeq(s, i, i) = c})

\* len(s.split(c))
SplitLen(s, c) == CountChar(s, c) + 1

\* number of non-empty pieces of s.split(c)
NonEmptyParts(s, c) ==
    Cardinality({i \in 1..Len(s) :
        /\ SubSeq(s, i, i) # c
        /\ (i = 1 \/ SubSeq(s, i - 1, i - 1) = c)})

\* the index of the first character of s at or after position i that is in cs,
\* Len(s) + 1 when there is none
FirstOf(s, i, cs) ==
    IF \E j \in i..Len(s) : SubSeq(s, j, j) \in cs
    THEN CHOOSE j \in i..Len(s) :
            /\ SubSeq(s, j, j) \in cs
            /\ \A k \in i..(j - 1) : SubSeq(s, k, k) \notin cs
    ELSE Len(s) + 1

(***************************************************************************)
(* urllib.parse.urlparse: scheme://netloc/path?query#fragment              *)
(***************************************************************************)
HasHttpScheme(url) == StartsWith(url, "http://") \/ StartsWith(url, "https://")

\* index of the first character after "://", 1 when the url has no scheme
AfterScheme(url) == IF Contains(url, "://") THEN Find(url, "://") + 3 ELSE 1

UrlScheme(url) == IF Contains(url, "://") THEN SubSeq(url, 1, Find(url, "://") - 1) ELSE ""

UrlNetloc(url) ==
    IF Contains(url, "://")
    THEN SubSeq(url, AfterScheme(url), FirstOf(url, AfterScheme(url), {"/", "?", "#"}) - 1)
    ELSE ""

UrlPath(url) ==
    LET start == FirstOf(url, AfterScheme(url), {"/", "?", "#"})
    IN  SubSeq(url, start, FirstOf(url, start, {"?", "#"}) - 1)

\* everything after the path: "?query#fragment"
UrlTail(url) ==
    LET start == FirstOf(url, AfterScheme(url), {"?", "#"})
    IN  SubSeq(url, start, Len(url))

(***************************************************************************)
(* Source routing, AsyncWebScraper._scrape_single_blog                     *)
(***************************************************************************)
NormalizeUrl(url) ==
    RStrip(IF HasHttpScheme(url) THEN url ELSE "https://" \o url, "/")

rss_indicators == {"/feed", "/rss", ".xml", "/atom"}

IsRssFeed(url) == \E ind \in rss_indicators : Contains(Lower(url), ind)

specific_article_patterns == {"/blog/", "/articles/", "/news/", "/post/", "/story/"}

\* the patterns are substrings: "/blog$" and "/blog/$" hold a literal "$"
exclusion_patterns ==
    {"/blog$", "/blog/$", "/blog/page/", "/blog/category/", "/blog/tag/",
     "/blog/author/", "/blog/archive/", "/tag/", "/category/", "/page/",
     "/archive/", "/feed", "/rss"}

IsSpecificArticleUrl(url) ==
    LET path == Lower(UrlPath(url))
        is_specific == \E p \in specific_article_patterns : Contains(path, p)
        is_excluded == \E p \in exclusion_patterns : Contains(path, p)
        is_specific_length == SplitLen(Strip(path, "/"), "/") >= 2
    IN  is_specific /\ ~is_excluded /\ is_specific_length

\* the branch _scrape_single_blog takes for a source URL
Route(rawUrl) ==
    LET url == NormalizeUrl(rawUrl)
    IN  IF IsSpecificArticleUrl(url) THEN "article"
        ELSE IF IsRssFeed(url) THEN "rss"
        ELSE IF Contains(Lower(url), "aquasec.com") THEN "aquasec"
        ELSE IF Contains(Lower(url), "medium.com") THEN "medium"
        ELSE IF Contains(url, "wordpress.com") \/ Contains(Lower(url), "/wp-content/")
             THEN "wordpress"
        ELSE "generic"

(***************************************************************************)
(* Routing specification: source URLs built from a host and up to MaxSegs  *)
(* path segments, an optional trailing slash and an optional query.        *)
(***************************************************************************)
RouteHosts == {"https://co.com", "co.com", "https://medium.com"}

RouteSegs == {"blog", "Blog", "news", "a", "feed", "rss", "atom.xml", "atom", "tag", "page"}

RouteQueries == {"", "?fmt=.xml"}

RECURSIVE PathsOfLen(_)
PathsOfLen(n) ==
    IF n = 0 THEN {""}
    ELSE {p \o "/" \o s : p \in PathsOfLen(n - 1), s \in RouteSegs}

RoutePaths == UNION {PathsOfLen(n) : n \in 0..MaxSegs}

RouteUrls ==
    {h \o p \o t \o q : h \in RouteHosts, p \in RoutePaths, t \in {"", "/"}, q \in RouteQueries}

\* the caller hands a URL to _scrape_single_blog, which picks a branch
RouteUrl ==
    /\ rt.pc = "idle"
    /\ \E u \in RouteUrls :
          rt' = [pc |-> "routed", url |-> u, route |-> Route(u)]
    /\ UNCHANGED <<ft, fd, lk, bt, ag, ar, services>>

RouteReset ==
    /\ rt.pc = "routed"
    /\ rt' = [pc |-> "idle", url |-> "", route |-> None]
    /\ UNCHANGED <<ft, fd, lk, bt, ag, ar, services>>

RtInit == rt = [pc |-> "idle", url |-> "", route |-> None]

FtIdle == [pc |-> "off"]
FdIdle == [pc |-> "off"]
LkIdle == [pc |-> "off"]
BtIdle == [pc |-> "off"]
AgIdle == [pc |-> "off"]
ArIdle == [pc |-> "off"]

InitRoute ==
    /\ RtInit
    /\ ft = FtIdle /\ fd = FdIdle /\ lk = LkIdle /\ bt = BtIdle /\ ag = AgIdle /\ ar = ArIdle
    /\ ServicesOff

NextRoute == RouteUrl \/ RouteReset

SpecRoute == InitRoute /\ [][NextRoute]_vars

(***************************************************************************)
(* Fetch strategy chain, AsyncWebScraper._fetch_page_content and            *)
(* AsyncWebScraper._fetch_with_curl.  A body is known by its length.        *)
(***************************************************************************)
min_content_length == 100

BodyLens == {0, 99, 100, 101}

\* what self.session.get(url) and response.text() can do
PrimaryOutcomes ==
    {[kind |-> "exception", status |-> 0, len |-> 0],
     [kind |-> "timeout", status |-> 0, len |-> 0]}
    \cup {[kind |-> "response", status |-> st, len |-> n] : st \in {200, 404, 500}, n \in BodyLens}

\* what subprocess.run(curl ...) can do
CurlOutcomes ==
    {[kind |-> "exception", returncode |-> 0, len |-> 0],
     [kind |-> "timeout", returncode |-> 0, len |-> 0]}
    \cup {[kind |-> "exit", returncode |-> rc, len |-> n] : rc \in {0, 22}, n \in BodyLens}

\* Optional[str]: None, or a body of the given length; raised marks an
\* exception that leaves the function instead of a return value
NoContent == [raised |-> FALSE, some |-> FALSE, len |-> 0]

Body(n) == [raised |-> FALSE, some |-> TRUE, len |-> n]

Raised == [raised |-> TRUE, some |-> FALSE, len |-> 0]

\* `html_content and len(html_content) >= min_content_length`
Sufficient(content, minLen) == content.some /\ content.len > 0 /\ content.len >= minLen

\* a handler that names the client error only, so that a timeout escapes
CaughtPrimary_ClientErrorOnly(kind) == kind \in {"exception"}

\* the failures `except Exception` of the first try block catches:
\* aiohttp errors and asyncio.TimeoutError are both Exceptions
CaughtPrimary(kind) == kind \in {"exception", "timeout"}

\* the first try block without its `response.status == 200` test
PrimaryFetch_AnyStatus(p, minLen) ==
    IF p.kind = "response"
    THEN IF Sufficient(Body(p.len), minLen) THEN Body(p.len) ELSE NoContent
    ELSE IF CaughtPrimary(p.kind) THEN NoContent ELSE Raised

\* first try block of _fetch_page_content: the body it returns, NoContent when
\* control falls through to the curl fallback (status not 200, short body,
\* or a caught exception)
PrimaryFetch(p, minLen) ==
    IF p.kind = "response"
    THEN IF p.status = 200 /\ Sufficient(Body(p.len), minLen) THEN Body(p.len) ELSE NoContent
    ELSE IF CaughtPrimary(p.kind) THEN NoContent ELSE Raised

\* the failures _fetch_with_curl catches itself: `except subprocess.TimeoutExpired`
\* and `except Exception`
CaughtCurl(kind) == kind \in {"timeout", "exception"}

\* _fetch_with_curl: stdout when curl exits 0, None otherwise
FetchWithCurl(c) ==
    IF c.kind = "exit"
    THEN IF c.returncode = 0 THEN Body(c.len) ELSE NoContent
    ELSE IF CaughtCurl(c.kind) THEN NoContent ELSE Raised

\* second try block of _fetch_page_content; its `except Exception` turns an
\* exception of _fetch_with_curl into the final `return None`
CurlFetch(c, minLen) ==
    LET html_content == FetchWithCurl(c)
    IN  IF Sufficient(html_content, minLen) THEN html_content ELSE NoContent

\* _fetch_page_content as a function of what the two strategies do
FetchPageContent(p, c, minLen) ==
    LET first == PrimaryFetch(p, minLen)
    IN  IF first.some \/ first.raised THEN first ELSE CurlFetch(c, minLen)

NoOutcome == [kind |-> "none", status |-> 0, len |-> 0]

NoCurlOutcome == [kind |-> "none", returncode |-> 0, len |-> 0]

FetchUrls == {"https://co.com/blog", "https://bad.example/timeout"}

FtStart ==
    [pc |-> "idle", url |-> "", primary |-> NoOutcome, curl |-> NoCurlOutcome,
     result |-> NoContent, strategy |-> None, primaryCalls |-> 0, curlCalls |-> 0]

\* a caller enters _fetch_page_content(url)
FetchBegin ==
    /\ ft.pc = "idle"
    /\ \E u \in FetchUrls : ft' = [FtStart EXCEPT !.pc = "primary", !.url = u]
    /\ UNCHANGED <<rt, fd, lk, bt, ag, ar, services>>

\* the session.get attempt, up to the return or the fall-through
FetchPrimary ==
    /\ ft.pc = "primary"
    /\ \E p \in PrimaryOutcomes :
          LET r == PrimaryFetch(p, min_content_length)
          IN  ft' = [ft EXCEPT !.primary = p,
                               !.primaryCalls = @ + 1,
                               !.result = r,
                               !.strategy = IF r.some THEN "primary" ELSE None,
                               !.pc = IF r.raised THEN "raised"
                                      ELSE IF r.some THEN "done" ELSE "fallback"]
    /\ UNCHANGED <<rt, fd, lk, bt, ag, ar, services>>

\* the curl attempt and the final return
FetchFallback ==
    /\ ft.pc = "fallback"
    /\ \E c \in CurlOutcomes :
          LET r == CurlFetch(c, min_content_length)
          IN  ft' = [ft EXCEPT !.curl = c,
                               !.curlCalls = @ + 1,
                               !.result = r,
                               !.strategy = IF r.some THEN "fallback" ELSE None,
                               !.pc = IF r.raised THEN "raised" ELSE "done"]
    /\ UNCHANGED <<rt, fd, lk, bt, ag, ar, services>>

\* the value (or the exception) reaches the caller
FetchReturn ==
    /\ ft.pc \in {"done", "raised"}
    /\ ft' = FtStart
    /\ UNCHANGED <<rt, fd, lk, bt, ag, ar, services>>

InitFetch ==
    /\ ft = FtStart
    /\ rt = [pc |-> "off"] /\ fd = FdIdle /\ lk = LkIdle /\ bt = BtIdle /\ ag = AgIdle /\ ar = ArIdle
    /\ ServicesOff

NextFetch == FetchBegin \/ FetchPrimary \/ FetchFallback \/ FetchReturn

SpecFetch == InitFetch /\ [][NextFetch]_vars

\* the primary attempt of the fetch in progress succeeded: 200 and enough bytes
PrimaryProduced ==
    ft.primary.kind = "response" /\ ft.primary.status = 200
        /\ ft.primary.len >= min_content_length

\* the fallback attempt succeeded: exit code 0 and enough bytes
CurlProduced ==
    ft.curl.kind = "exit" /\ ft.curl.returncode = 0 /\ ft.curl.len >= min_content_length

\* C5: in one fetch the fallback is invoked exactly once when the primary
\* attempt fails (non-200, exception, timeout, short body), never when the
\* primary returns 200 with at least min_content_length bytes, and the fetch
\* returns None only after that single fallback attempt failed as well.
C5_FallbackExactlyOnce ==
    /\ ft.curlCalls <= 1
    /\ ft.pc \in {"idle", "primary"} => ft.curlCalls = 0
    /\ ft.pc = "done" =>
          /\ ft.primaryCalls = 1
          /\ PrimaryProduced => (ft.curlCalls = 0 /\ ft.result = Body(ft.primary.len))
          /\ ~PrimaryProduced => ft.curlCalls = 1
          /\ ~ft.result.some => (ft.curlCalls = 1 /\ ~PrimaryProduced /\ ~CurlProduced)

C5_Witness ==
    /\ ft.pc = "done"
    /\ ft.primary.kind = "response" /\ ft.primary.status = 500
    /\ ft.curlCalls = 1
    /\ ~ft.result.some

\* C6: no exception leaves the fetch chain, whatever the primary attempt
\* (exception, timeout, non-200, short body) and the fallback (non-zero exit,
\* timeout, exception, short body) do, and the value returned is None whenever
\* neither strategy produced min_content_length bytes.
C6_NoExceptionEscapes ==
    /\ ft.pc # "raised"
    /\ ~ft.result.raised
    /\ (ft.pc = "done" /\ ~PrimaryProduced /\ ~CurlProduced) => ft.result = NoContent

C6_Witness ==
    /\ ft.pc = "done"
    /\ ft.primary.kind = "timeout"
    /\ ft.curl.kind = "timeout"
    /\ ft.result = NoContent

(***************************************************************************)
(* Feed extraction: IndustryNewsAgent._fetch_rss_articles with              *)
(* _sort_articles_by_date, and AsyncWebScraper._scrape_rss.                 *)
(* A feed is the sequence of its entries; an entry has a link and a         *)
(* published string.  An instant is a number YYYYMMDD (UTC).                *)
(***************************************************************************)
DateStrings ==
    {"", "not-a-date", "2024-01-01", "2024-02-01", "2024-03-01", "2024-02-15T00:00:00Z"}

FeedLinks == {"https://co.com/blog/a", "https://co.com/blog/b"}

FeedEntries == [link : FeedLinks, published : DateStrings]

RECURSIVE SeqsOfLen(_, _)
SeqsOfLen(S, n) ==
    IF n = 0 THEN {<<>>}
    ELSE {Append(q, x) : q \in SeqsOfLen(S, n - 1), x \in S}

SeqsUpTo(S, n) == UNION {SeqsOfLen(S, k) : k \in 0..n}

\* datetime.min, a naive datetime
DatetimeMin == [ok |-> TRUE, aware |-> FALSE, t |-> 10101]

ParseFailed == [ok |-> FALSE, aware |-> FALSE, t |-> 0]

\* dateutil.parser.parse(published): a naive datetime for a date without zone,
\* an aware one for a string that names its zone, ValueError otherwise
DateutilParse(published) ==
    CASE published = "2024-01-01" -> [ok |-> TRUE, aware |-> FALSE, t |-> 20240101]
      [] published = "2024-02-01" -> [ok |-> TRUE, aware |-> FALSE, t |-> 20240201]
      [] published = "2024-03-01" -> [ok |-> TRUE, aware |-> FALSE, t |-> 20240301]
      [] published = "2024-02-15T00:00:00Z" -> [ok |-> TRUE, aware |-> TRUE, t |-> 20240215]
      [] OTHER -> ParseFailed

\* the loop over the six strptime layouts, reached when dateutil raised; none
\* of them accepts a string that dateutil rejected
StrptimeFormats(published) == ParseFailed

\* get_sort_key of _sort_articles_by_date
GetSortKey(published) ==
    IF published = "" THEN DatetimeMin
    ELSE IF DateutilParse(published).ok THEN DateutilParse(published)
    ELSE IF StrptimeFormats(published).ok THEN StrptimeFormats(published)
    ELSE DatetimeMin

\* datetime.__lt__ raises TypeError between a naive and an aware datetime; a
\* sort of keys of both kinds has to compare two of them
SortRaises(keys) ==
    \E i, j \in 1..Len(keys) : keys[i].aware # keys[j].aware

\* insert x into the descending sequence q behind every element whose key is
\* not smaller: equal keys keep their order of arrival
RECURSIVE InsertDesc(_, _)
InsertDesc(q, x) ==
    IF Len(q) = 0 THEN <<x>>
    ELSE IF q[1].key.t >= x.key.t THEN <<q[1]>> \o InsertDesc(Tail(q), x)
    ELSE <<x>> \o q

\* sorted(articles, key=get_sort_key, reverse=True): stable, newest first
RECURSIVE SortedDesc(_)
SortedDesc(q) ==
    IF Len(q) = 0 THEN <<>>
    ELSE InsertDesc(SortedDesc(SubSeq(q, 1, Len(q) - 1)), q[Len(q)])

\* _sort_articles_by_date: the sorted list, the list as given when sorting raised
SortArticlesByDate(articles) ==
    IF SortRaises([i \in 1..Len(articles) |-> articles[i].key])
    THEN articles
    ELSE SortedDesc(articles)

\* q[:n]
Take(q, n) == SubSeq(q, 1, Min(Len(q), Max(n, 0)))

\* the article dicts _fetch_rss_articles builds, one per entry; idx is the
\* position of the entry in the feed and key its sort key
RssDicts(entries) ==
    [i \in 1..Len(entries) |->
        [idx |-> i, url |-> entries[i].link, published |-> entries[i].published,
         key |-> GetSortKey(entries[i].published)]]

\* what _fetch_rss_with_curl returns: None, or a feed with entries
CurlFeeds == {<<>>} \cup SeqsOfLen(FeedEntries, 1)

\* the extractor without its `articles[:max_articles]`
FetchRssArticles_NoTruncate(direct, viaCurl, max_articles) ==
    LET entries == IF Len(direct) > 0 THEN direct ELSE viaCurl
    IN  IF Len(entries) = 0 THEN <<>>
        ELSE SortArticlesByDate(RssDicts(entries))

\* the per-source loop of scrape_blog_articles (lines 96-103): the articles of
\* url_articles whose url is not in seen, in order; the loop breaks once an
\* append has brought their number to max_articles
RECURSIVE UniqueFrom(_, _, _, _)
UniqueFrom(url_articles, seen, max_articles, n) ==
    IF Len(url_articles) = 0 THEN <<>>
    ELSE IF url_articles[1].url \in seen
         THEN UniqueFrom(Tail(url_articles), seen, max_articles, n)
         ELSE <<url_articles[1]>>
              \o (IF n + 1 >= max_articles THEN <<>>
                  ELSE UniqueFrom(Tail(url_articles), seen \cup {url_articles[1].url},
                                  max_articles, n + 1))

\* a per-source loop that never breaks
UniqueArticles_NoBreak(url_articles, seen, max_articles) ==
    UniqueFrom(url_articles, seen, Len(url_articles) + 1, 0)

UniqueArticles(url_articles, seen, max_articles) ==
    UniqueFrom(url_articles, seen, max_articles, 0)

\* _fetch_rss_articles(rss_url, max_articles): `direct` is what
\* feedparser.parse(rss_url) holds, `viaCurl` what the curl fallback yields
\* (<<>> for None); every exception ends in `return []`
FetchRssArticles(direct, viaCurl, max_articles) ==
    LET entries == IF Len(direct) > 0 THEN direct ELSE viaCurl
    IN  IF Len(entries) = 0 THEN <<>>
        ELSE Take(SortArticlesByDate(RssDicts(entries)), max_articles)

\* Article.validate_url
ValidArticleUrl_Any(url) == TRUE

ValidArticleUrl(url) == HasHttpScheme(url)

\* _scrape_rss(url, max_articles): one Article per entry of
\* feed.entries[:max_articles * 2], in feed order; an invalid link makes
\* Article(...) raise, which leaves as WebScrapingError
ScrapeRss(entries, max_articles) ==
    LET head == Take(entries, max_articles * 2)
    IN  IF \E i \in 1..Len(head) : ~ValidArticleUrl(head[i].link)
        THEN [raised |-> TRUE, articles |-> <<>>]
        ELSE [raised |-> FALSE,
              articles |-> [i \in 1..Len(head) |->
                  [idx |-> i, url |-> head[i].link, published |-> head[i].published,
                   key |-> GetSortKey(head[i].published)]]]

FdStart == [pc |-> "idle", entries |-> <<>>, max |-> 1, by |-> None, out |-> <<>>]

\* a feed and a max_articles reach a feed extractor
FeedArrive ==
    /\ fd.pc = "idle"
    /\ \E f \in SeqsUpTo(FeedEntries, MaxFeedLen), m \in 1..MaxMax :
          fd' = [FdStart EXCEPT !.pc = "ready", !.entries = f, !.max = m]
    /\ UNCHANGED <<rt, ft, lk, bt, ag, ar, services>>

\* the agent's extractor runs on it
FeedFetchRssArticles ==
    /\ fd.pc = "ready"
    /\ \E c \in (IF Len(fd.entries) = 0 THEN CurlFeeds ELSE {<<>>}) :
          fd' = [fd EXCEPT !.pc = "done", !.by = "_fetch_rss_articles",
                           !.entries = IF Len(fd.entries) = 0 THEN c ELSE @,
                           !.out = FetchRssArticles(fd.entries, c, fd.max)]
    /\ UNCHANGED <<rt, ft, lk, bt, ag, ar, services>>

\* the scraper's extractor runs on it
FeedScrapeRss ==
    /\ fd.pc = "ready"
    /\ fd' = [fd EXCEPT !.pc = "done", !.by = "_scrape_rss",
                        !.out = ScrapeRss(fd.entries, fd.max).articles]
    /\ UNCHANGED <<rt, ft, lk, bt, ag, ar, services>>

FeedReturn ==
    /\ fd.pc = "done"
    /\ fd' = FdStart
    /\ UNCHANGED <<rt, ft, lk, bt, ag, ar, services>>

InitFeed ==
    /\ fd = FdStart
    /\ rt = [pc |-> "off"] /\ ft = FtIdle /\ lk = LkIdle /\ bt = BtIdle /\ ag = AgIdle /\ ar = ArIdle
    /\ ServicesOff

NextFeed == FeedArrive \/ FeedFetchRssArticles \/ FeedScrapeRss \/ FeedReturn

SpecFeed == InitFeed /\ [][NextFeed]_vars

Parseable(published) == published # "" /\ DateutilParse(published).ok

\* C8: the extractor's result is the first max entries of the stable
\* descending-by-date ordering of the first 2 * max feed entries.
C8_SortedWindow ==
    fd.pc = "done" =>
        fd.out = Take(SortedDesc(RssDicts(Take(fd.entries, 2 * fd.max))), fd.max)

\* C9: in the output of the sorting extractor no entry with an empty or
\* unparseable date comes before an entry with a parseable date.
C9_UnparseableLast ==
    (fd.pc = "done" /\ fd.by = "_fetch_rss_articles") =>
        \A i, j \in 1..Len(fd.out) :
            (i < j /\ ~Parseable(fd.out[i].published)) => ~Parseable(fd.out[j].published)

(***************************************************************************)
(* Link discovery, AsyncWebScraper._find_article_links.  A page is the      *)
(* sequence of its anchors in document order; an anchor has its href ("" for *)
(* none) and ctx, the set of selector contexts (ancestor tags and classes)   *)
(* it lies in.                                                              *)
(***************************************************************************)
LinkCap == 50

\* the selector list, in order: ctx "" stands for no ancestor requirement,
\* href is the attribute test (^= prefix, *= contains, none)
selectors ==
    << [ctx |-> "", href |-> "prefix"],
       [ctx |-> "article", href |-> "prefix"],
       [ctx |-> "section", href |-> "prefix"],
       [ctx |-> "h2", href |-> "prefix"],
       [ctx |-> "h3", href |-> "prefix"],
       [ctx |-> ".post-title", href |-> "prefix"],
       [ctx |-> ".entry-title", href |-> "prefix"],
       [ctx |-> "", href |-> "contains"],
       [ctx |-> ".blog-post", href |-> "contains"],
       [ctx |-> "h2", href |-> "any"],
       [ctx |-> "h3", href |-> "any"],
       [ctx |-> ".post-title", href |-> "any"],
       [ctx |-> ".entry-title", href |-> "any"],
       [ctx |-> "article", href |-> "any"],
       [ctx |-> ".blog-title", href |-> "any"] >>

\* does the anchor match the CSS selector
Matches(anchor, sel) ==
    /\ sel.ctx = "" \/ sel.ctx \in anchor.ctx
    /\ CASE sel.href = "prefix" -> StartsWith(anchor.href, "/blog/")
         [] sel.href = "contains" -> Contains(anchor.href, "/blog/")
         [] OTHER -> TRUE

\* soup.select(selector): the matching anchors in document order
Select(page, sel) == SelectSeq(page, LAMBDA anchor : Matches(anchor, sel))

\* the index of the last occurrence of the one-character string c in s, 0 if none
LastIndexOf(s, c) ==
    IF \E i \in 1..Len(s) : SubSeq(s, i, i) = c
    THEN CHOOSE i \in 1..Len(s) :
            SubSeq(s, i, i) = c /\ \A j \in (i + 1)..Len(s) : SubSeq(s, j, j) # c
    ELSE 0

\* urljoin(base_url, href) for an absolute href, a mailto: href, a
\* root-relative href and a relative one
UrlJoin(base_url, href) ==
    LET origin == UrlScheme(base_url) \o "://" \o UrlNetloc(base_url)
        path == UrlPath(base_url)
    IN  IF Contains(href, "://") \/ StartsWith(href, "mailto:") THEN href
        ELSE IF StartsWith(href, "/") THEN origin \o href
        ELSE origin \o SubSeq(path, 1, LastIndexOf(path, "/")) \o
             (IF LastIndexOf(path, "/") = 0 THEN "/" ELSE "") \o href

valid_patterns == {"/blog/", "/articles/", "/news/", "/post/", "/story/"}

invalid_patterns ==
    {"/blog/tag/", "/blog/category/", "/blog/author/", "/blog/page/", "/blog/archive/",
     "/tag/", "/category/", "/author/", "/page/", "/archive/", "/search", "/feed", "/rss"}

\* a validity test that leaves out the invalid patterns
IsValidArticleUrl_NoInvalid(full_url, base_url) ==
    /\ UrlNetloc(full_url) = UrlNetloc(base_url)
    /\ \E p \in valid_patterns : Contains(Lower(UrlPath(full_url)), p)
    /\ Len(UrlPath(full_url)) > Len("/blog/")

IsValidArticleUrl(full_url, base_url) ==
    LET path == Lower(UrlPath(full_url))
    IN  /\ UrlNetloc(full_url) = UrlNetloc(base_url)
        /\ \E p \in valid_patterns : Contains(path, p)
        /\ ~\E p \in invalid_patterns : Contains(path, p)
        /\ Len(path) > Len("/blog/")

InSeq(x, q) == \E i \in 1..Len(q) : q[i] = x

\* an inner loop without the test on the number of links
RECURSIVE CollectLinks_NoCap(_, _, _)
CollectLinks_NoCap(found, base_url, links) ==
    IF Len(found) = 0 THEN links
    ELSE LET href == found[1].href
             full_url == UrlJoin(base_url, href)
         IN  IF href # "" /\ IsValidArticleUrl(full_url, base_url) /\ ~InSeq(full_url, links)
             THEN CollectLinks_NoCap(Tail(found), base_url, Append(links, full_url))
             ELSE CollectLinks_NoCap(Tail(found), base_url, links)

\* the inner loop over the anchors one selector found, from the links
\* collected so far
RECURSIVE CollectLinks(_, _, _)
CollectLinks(found, base_url, links) ==
    IF Len(found) = 0 THEN links
    ELSE LET href == found[1].href
             full_url == UrlJoin(base_url, href)
         IN  IF href # "" /\ IsValidArticleUrl(full_url, base_url)
             THEN LET added == IF InSeq(full_url, links) THEN links
                               ELSE Append(links, full_url)
                  IN  IF Len(added) >= LinkCap THEN added
                      ELSE CollectLinks(Tail(found), base_url, added)
             ELSE CollectLinks(Tail(found), base_url, links)

\* a walk that goes on to the next selector even with links in hand
StopWalk_Never(links) == FALSE

\* `if links: break`
StopWalk(links) == Len(links) > 0

\* _find_article_links as a whole, from selector number n on
RECURSIVE FindArticleLinksFrom(_, _, _, _)
FindArticleLinksFrom(page, base_url, n, links) ==
    IF n > Len(selectors) THEN links
    ELSE LET got == CollectLinks(Select(page, selectors[n]), base_url, links)
         IN  IF StopWalk(got) THEN got
             ELSE FindArticleLinksFrom(page, base_url, n + 1, got)

FindArticleLinks(page, base_url) == FindArticleLinksFrom(page, base_url, 1, <<>>)

PageHrefs ==
    {"", "/blog/a", "/blog/b", "/blog/tag/x", "/news/n", "https://co.com/blog/a",
     "https://other.com/blog/z", "/Blog/Up", "/news/"}

PageContexts == {{}, {"h2"}}

Anchors == [href : PageHrefs, ctx : PageContexts]

BaseUrls == {"https://co.com/blog"}

\* the index page of the link-discovery scenario: /blog/a, /blog/tag/x, /blog/b
ScenarioPages ==
    {<< [href |-> "/blog/a", ctx |-> {}], [href |-> "/blog/tag/x", ctx |-> {}],
        [href |-> "/blog/b", ctx |-> {}] >>}

Digits == <<"0", "1", "2", "3", "4", "5", "6", "7", "8", "9">>

TwoDigits(n) == Digits[(n \div 10) + 1] \o Digits[(n % 10) + 1]

\* an index page with more article links than the cap: the first link three
\* times, then LinkCap + 1 further ones
LongPages ==
    {[i \in 1..(LinkCap + 4) |->
         [href |-> "/blog/p" \o TwoDigits(Max(1, i - 2)), ctx |-> {}]]}

Pages == SeqsUpTo(Anchors, MaxAnchors) \cup ScenarioPages \cup LongPages

LkStart ==
    [pc |-> "idle", page |-> <<>>, base |-> "", sel |-> 1, links |-> <<>>,
     consulted |-> <<>>]

\* _find_article_links(soup, base_url) is entered
LinkBegin ==
    /\ lk.pc = "idle"
    /\ \E pg \in Pages, b \in BaseUrls :
          lk' = [LkStart EXCEPT !.pc = "walk", !.page = pg, !.base = b]
    /\ UNCHANGED <<rt, ft, fd, bt, ag, ar, services>>

\* one turn of the selector loop: select, collect, break or go on
LinkSelector ==
    /\ lk.pc = "walk"
    /\ LET got == CollectLinks(Select(lk.page, selectors[lk.sel]), lk.base, lk.links)
           last == StopWalk(got) \/ lk.sel = Len(selectors)
       IN  lk' = [lk EXCEPT !.links = got,
                            !.consulted = Append(@, lk.sel),
                            !.sel = IF last THEN @ ELSE @ + 1,
                            !.pc = IF last THEN "done" ELSE "walk"]
    /\ UNCHANGED <<rt, ft, fd, bt, ag, ar, services>>

LinkReturn ==
    /\ lk.pc = "done"
    /\ lk' = LkStart
    /\ UNCHANGED <<rt, ft, fd, bt, ag, ar, services>>

InitLinks ==
    /\ lk = LkStart
    /\ rt = [pc |-> "off"] /\ ft = FtIdle /\ fd = FdIdle /\ bt = BtIdle /\ ag = AgIdle /\ ar = ArIdle
    /\ ServicesOff

NextLinks == LinkBegin \/ LinkSelector \/ LinkReturn

SpecLinks == InitLinks /\ [][NextLinks]_vars

\* the links of lk.links come from the one selector consulted last
FromLastSelector ==
    (lk.pc = "done" /\ Len(lk.consulted) > 0) =>
        lk.links = CollectLinks(Select(lk.page, selectors[lk.consulted[Len(lk.consulted)]]),
                                lk.base, <<>>)

\* C10 as stated: the walk stops at the first selector with any match: no
\* selector is consulted after one that matched an anchor, and the links
\* returned come from one selector.
C10_StopAtFirstMatch ==
    /\ \A k \in 1..Len(lk.consulted) : \A i \in 1..(lk.consulted[k] - 1) :
          Len(Select(lk.page, selectors[i])) = 0
    /\ FromLastSelector

\* C10 amended: the walk stops at the first selector with a valid candidate:
\* no selector is consulted after one that yielded a link accepted by
\* _is_valid_article_url, every selector before the last consulted one yielded
\* none, and the links returned are those of the last consulted selector alone.
C10_StopAtFirstValid ==
    /\ lk.consulted = [k \in 1..Len(lk.consulted) |-> k]
    /\ \A k \in 1..Len(lk.consulted) : \A i \in 1..(lk.consulted[k] - 1) :
          Len(CollectLinks(Select(lk.page, selectors[i]), lk.base, <<>>)) = 0
    /\ FromLastSelector
    /\ lk.pc = "done" => lk.links = FindArticleLinks(lk.page, lk.base)

C10_Witness ==
    /\ lk.pc = "done"
    /\ Len(lk.consulted) > 1
    /\ Len(Select(lk.page, selectors[1])) > 0
    /\ Len(lk.links) > 0

\* the absolute URLs of the anchors with an href that a consulted selector matched
FoundUrls ==
    {UrlJoin(lk.base, lk.page[i].href) :
        i \in {j \in 1..Len(lk.page) :
                 /\ lk.page[j].href # ""
                 /\ \E k \in 1..Len(lk.consulted) :
                       Matches(lk.page[j], selectors[lk.consulted[k]])}}

\* the conditions of C11 on a resolved link, read on the path as written
ValidAsStated(full_url, base_url) ==
    /\ UrlNetloc(full_url) = UrlNetloc(base_url)
    /\ \E p \in {"/blog/", "/articles/", "/news/", "/post/", "/story/"} :
          Contains(UrlPath(full_url), p)
    /\ \A p \in invalid_patterns : ~Contains(UrlPath(full_url), p)
    /\ Len(UrlPath(full_url)) > Len("/blog/")

\* the same conditions read on the lower-cased path
ValidLowerCased(full_url, base_url) ==
    /\ UrlNetloc(full_url) = UrlNetloc(base_url)
    /\ \E p \in {"/blog/", "/articles/", "/news/", "/post/", "/story/"} :
          Contains(Lower(UrlPath(full_url)), p)
    /\ \A p \in invalid_patterns : ~Contains(Lower(UrlPath(full_url)), p)
    /\ Len(UrlPath(full_url)) > Len("/blog/")

C12_CappedAndDistinct ==
    lk.pc = "done" =>
        /\ Len(lk.links) <= 50
        /\ \A i, j \in 1..Len(lk.links) : i < j => lk.links[i] # lk.links[j]

\* a page with more than 50 different article links, some of them repeated
C12_Witness ==
    /\ lk.pc = "done"
    /\ Len(lk.page) > 50
    /\ \E i, j \in 1..Len(lk.page) : i < j /\ lk.page[i].href = lk.page[j].href
    /\ Len(lk.links) = 50

(***************************************************************************)
(* models.Article: the constructor raises ValidationError unless url, title, *)
(* content and company_name are all given and url starts with http(s)://.    *)
(***************************************************************************)
ArticleRequired == {"url", "title", "content", "company_name"}

ArticleOk(given, url) == ArticleRequired \subseteq given /\ ValidArticleUrl(url)

(***************************************************************************)
(* The agent's batch step, IndustryNewsAgent._scrape_articles: one turn of  *)
(* the loop per company configuration, inside one try block.                *)
(***************************************************************************)
AgentCompanies ==
    {[name |-> "Co", url |-> "https://co.com/feed", rss |-> TRUE],
     [name |-> "Other", url |-> "https://other.com/feed", rss |-> TRUE],
     [name |-> "Blog", url |-> "https://co.com/blog", rss |-> FALSE]}

\* feeds as the agent sees them: an entry without <link> has link ""
AgentFeeds ==
    SeqsUpTo([link : FeedLinks \cup {""}, published : {"2024-01-01", "2024-02-01"}], 2)

\* what ArticleExtractionTool hands back for a blog index: (title, url) dicts
LlmLists ==
    {<<>>} \cup SeqsOfLen([link : FeedLinks, published : {""}], 1)

\* the page of a blog index as _fetch_blog_articles gets it: as markdown from
\* crawl4ai, as markdown from curl and html2markdown, or not at all
MarkdownWorlds == {"crawl4ai", "curl", "none"}

\* the anchors of the blog index page
AgentPages == {<<>>} \cup ScenarioPages

\* is _extract_articles_with_llm called: whenever the page came as markdown
LlmInvoked(markdown) == markdown # "none"

\* _fetch_blog_articles: the tool's list, [] when the page could not be
\* fetched or the tool found nothing
FetchBlogArticles(markdown, found, max_articles) ==
    IF LlmInvoked(markdown) THEN RssDicts(found) ELSE <<>>

\* the keyword arguments of the Article(...) call of _scrape_articles
AgentArticleGiven == {"title", "url", "company_name", "publish_date", "summary", "content", "word_count"}

\* lines 244-265: the Article objects of one company, raised when a
\* constructor call fails
AgentConvert(dicts, k) ==
    IF \E i \in 1..Len(dicts) : ~ArticleOk(AgentArticleGiven, dicts[i].url)
    THEN [raised |-> TRUE, articles |-> <<>>]
    ELSE [raised |-> FALSE,
          articles |-> [i \in 1..Len(dicts) |->
              [url |-> dicts[i].url, src |-> k, idx |-> dicts[i].idx]]]

AgStart ==
    [pc |-> "idle", configs |-> <<>>, max |-> 1, k |-> 1, article_objects |-> <<>>,
     articles |-> <<>>, status |-> "starting", errors |-> <<>>, attempted |-> {},
     yielded |-> <<>>, pages |-> <<>>, llm |-> {}, structural |-> {}, delays |-> 0]

\* the workflow enters _scrape_articles with its company_configs
AgentBegin ==
    /\ ag.pc = "idle"
    /\ \E cs \in SeqsUpTo(AgentCompanies, MaxSources) \ {<<>>}, m \in 1..MaxMax :
          ag' = [AgStart EXCEPT !.pc = "loop", !.configs = cs, !.max = m]
    /\ UNCHANGED <<rt, ft, fd, lk, bt, ar, services>>

\* one company: fetch its article list, scrape the details, build the Articles.
\* The loop goes from one company to the next without a sleep: delays stays 0.
\* _scrape_detailed_content rewrites content, title and published of a dict,
\* never its url, and hands back every dict it was given.
AgentCompany ==
    /\ ag.pc = "loop"
    /\ ag.k <= Len(ag.configs)
    /\ \E feed \in (IF ag.configs[ag.k].rss THEN AgentFeeds ELSE LlmLists),
          md \in (IF ag.configs[ag.k].rss THEN {"none"} ELSE MarkdownWorlds),
          pg \in (IF ag.configs[ag.k].rss THEN {<<>>} ELSE AgentPages) :
          LET cfg == ag.configs[ag.k]
              dicts == IF cfg.rss THEN FetchRssArticles(feed, <<>>, ag.max)
                       ELSE FetchBlogArticles(md, feed, ag.max)
              conv == AgentConvert(dicts, ag.k)
              called == IF ~cfg.rss /\ LlmInvoked(md) THEN {ag.k} ELSE {}
          IN  IF conv.raised
              THEN \* the except clause of the whole step: nothing is kept
                   ag' = [ag EXCEPT !.pc = "done", !.status = "error",
                              !.attempted = @ \cup {ag.k},
                              !.yielded = Append(@, conv.articles),
                              !.pages = Append(@, pg),
                              !.llm = @ \cup called,
                              !.errors = Append(@, "Scraping failed")]
              ELSE ag' = [ag EXCEPT !.k = @ + 1,
                              !.attempted = @ \cup {ag.k},
                              !.yielded = Append(@, conv.articles),
                              !.pages = Append(@, pg),
                              !.llm = @ \cup called,
                              !.article_objects = @ \o conv.articles]
    /\ UNCHANGED <<rt, ft, fd, lk, bt, ar, services>>

\* after the loop: no article at all is an error, otherwise the state is updated
AgentFinish ==
    /\ ag.pc = "loop"
    /\ ag.k > Len(ag.configs)
    /\ IF Len(ag.article_objects) = 0
       THEN ag' = [ag EXCEPT !.pc = "done", !.status = "error",
                       !.errors = Append(@, "Scraping failed: No articles found for any company")]
       ELSE ag' = [ag EXCEPT !.pc = "done", !.status = "articles_scraped",
                       !.articles = ag.article_objects]
    /\ UNCHANGED <<rt, ft, fd, lk, bt, ar, services>>

AgentReturn ==
    /\ ag.pc = "done"
    /\ ag' = AgStart
    /\ UNCHANGED <<rt, ft, fd, lk, bt, ar, services>>

InitAgent ==
    /\ ag = AgStart
    /\ rt = [pc |-> "off"] /\ ft = FtIdle /\ fd = FdIdle /\ lk = LkIdle /\ bt = BtIdle /\ ar = ArIdle
    /\ ServicesOff

NextAgent == AgentBegin \/ AgentCompany \/ AgentFinish \/ AgentReturn

SpecAgent == InitAgent /\ [][NextAgent]_vars

\* C23: when k sources of a batch have been requested, exactly k - 1
\* inter-source delays have been taken, whether or not a source failed.
C23_DelayBetweenSources ==
    ag.attempted # {} => ag.delays = Cardinality(ag.attempted) - 1

\* C1: the article list a batch hands back holds no url twice (and the copy
\* kept is the first one met in source order, then extraction order).
C1_NoDuplicateUrl ==
    ag.pc = "done" =>
        \A i, j \in 1..Len(ag.articles) :
            i < j => ag.articles[i].url # ag.articles[j].url

\* C2: a failure while one source is processed neither stops the batch before
\* every source was attempted nor discards the articles of earlier sources.
C2_FailureIsolated ==
    ag.pc = "done" =>
        /\ ag.attempted = 1..Len(ag.configs)
        /\ \A k \in 1..Len(ag.yielded) : \A i \in 1..Len(ag.yielded[k]) :
              InSeq(ag.yielded[k][i], ag.articles)

\* C14: the extraction tool is called for a source only after structural
\* link discovery ran on the source's page and returned no candidate.
C14_LlmOnlyAfterEmptyDiscovery ==
    \A k \in ag.llm :
        /\ k \in ag.structural
        /\ Len(FindArticleLinks(ag.pages[k], ag.configs[k].url)) = 0

(***************************************************************************)
(* The scraper's batch, AsyncWebScraper.scrape_blog_articles, and the       *)
(* branches of _scrape_single_blog.  What the network, the pages and the     *)
(* feeds hold is the world w of a source: p and c are the outcomes of the    *)
(* two fetch strategies on the source page, page its anchors, up the article *)
(* pages _scrape_single_article can turn into a dict, feed the feed entries, *)
(* wp the answer of the WordPress API, scira that of the Scira API, curl2    *)
(* the outcome of _scrape_with_curl's own curl run, headings the h1-h4 of    *)
(* the page.                                                                *)
(***************************************************************************)
BatchUrls ==
    {"https://co.com/blog", "https://bad.example/timeout", "https://co.com/feed",
     "https://co.com/blog/a", "https://co.wordpress.com", "https://aquasec.com/blog",
     "https://medium.com/co"}

PrimaryTimeout == [kind |-> "timeout", status |-> 0, len |-> 0]

PrimaryOk == [kind |-> "response", status |-> 200, len |-> 101]

CurlTimeout == [kind |-> "timeout", returncode |-> 0, len |-> 0]

CurlOk == [kind |-> "exit", returncode |-> 0, len |-> 101]

\* the fetch of a page: both strategies fail, the primary succeeds, or only
\* the fallback does
FetchWorlds ==
    {[p |-> PrimaryTimeout, c |-> CurlTimeout], [p |-> PrimaryOk, c |-> NoCurlOutcome],
     [p |-> PrimaryTimeout, c |-> CurlOk]}

BatchPages ==
    {<<>>,
     << [href |-> "/blog/a", ctx |-> {}] >>,
     << [href |-> "/blog/a", ctx |-> {}], [href |-> "/blog/tag/x", ctx |-> {}],
        [href |-> "/blog/b", ctx |-> {}] >>}

\* the source URLs an index page is fetched from (medium gets /latest)
BatchBases == BatchUrls \cup {"https://medium.com/co/latest"}

\* _find_article_links on every page of the model
LinksOf == [b \in BatchBases, pg \in BatchPages |-> FindArticleLinks(pg, b)]

BatchFeeds == SeqsUpTo([link : FeedLinks \cup {""}, published : {""}], 2)

WpWorlds ==
    {[kind |-> "exception", posts |-> <<>>], [kind |-> "status", posts |-> <<>>],
     [kind |-> "posts", posts |-> <<"https://co.wordpress.com/blog/a">>],
     [kind |-> "posts", posts |-> <<"">>]}

SciraWorlds ==
    {[kind |-> "raise", links |-> <<>>], [kind |-> "ok", links |-> <<>>],
     [kind |-> "ok", links |-> <<"https://aquasec.com/blog/a", "https://aquasec.com/blog/b">>]}

HeadingWorlds ==
    {<<>>, << [long |-> TRUE, href |-> ""], [long |-> FALSE, href |-> "/blog/h"] >>,
     << [long |-> TRUE, href |-> "/blog/h"], [long |-> TRUE, href |-> "mailto:a@co.com"] >>}

DefaultWorld ==
    [p |-> PrimaryOk, c |-> NoCurlOutcome, page |-> <<>>, up |-> "all", parse |-> TRUE,
     feed |-> <<>>, wp |-> [kind |-> "status", posts |-> <<>>],
     scira |-> [kind |-> "raise", links |-> <<>>], curl2 |-> "ok", headings |-> <<>>]

GenericWorlds ==
    {[DefaultWorld EXCEPT !.p = f.p, !.c = f.c, !.page = pg, !.up = u] :
        f \in FetchWorlds, pg \in BatchPages, u \in {"all", "none", "a"}}

\* the worlds that differ in what the branch taken for the route reads
WorldsFor(route) ==
    CASE route = "article" ->
            {[DefaultWorld EXCEPT !.p = f.p, !.c = f.c, !.parse = ok] :
                f \in FetchWorlds, ok \in BOOLEAN}
      [] route = "rss" -> {[DefaultWorld EXCEPT !.feed = fe] : fe \in BatchFeeds}
      [] route = "wordpress" ->
            {[g EXCEPT !.wp = x] : g \in {DefaultWorld} \cup {y \in GenericWorlds : y.up = "all"},
                                   x \in WpWorlds}
      [] route = "aquasec" ->
            {[DefaultWorld EXCEPT !.scira = sc, !.curl2 = c2, !.page = pg, !.headings = hd] :
                sc \in SciraWorlds, c2 \in {"ok", "fail"}, pg \in BatchPages,
                hd \in HeadingWorlds}
      [] OTHER -> GenericWorlds

\* does _scrape_single_article(link) return a dict in world w: the page was
\* fetched and a content block was found
ArticlePageOk(w, link) ==
    \/ w.up = "all"
    \/ w.up = "a" /\ EndsWith(link, "/a")

Result(urls) == [raised |-> FALSE, urls |-> urls, fetchFailed |-> FALSE, noEntries |-> FALSE]

Failure == [raised |-> TRUE, urls |-> <<>>, fetchFailed |-> FALSE, noEntries |-> FALSE]

\* _extract_articles_from_html: one Article per link of article_links[:max_articles]
\* whose page could be scraped
ExtractArticlesFromHtml(w, base_url, max_articles) ==
    SelectSeq(Take(LinksOf[base_url, w.page], max_articles), LAMBDA link : ArticlePageOk(w, link))

\* _scrape_generic_blog: [] when the page cannot be fetched, without an error
ScrapeGenericBlog(w, url, max_articles) ==
    IF ~FetchPageContent(w.p, w.c, min_content_length).some
    THEN [Result(<<>>) EXCEPT !.fetchFailed = TRUE]
    ELSE Result(ExtractArticlesFromHtml(w, url, max_articles))

\* _scrape_medium
ScrapeMedium(w, url, max_articles) ==
    ScrapeGenericBlog(w, IF Contains(Lower(url), ".com/@") THEN url ELSE url \o "/latest",
                      max_articles)

\* _scrape_wordpress: the posts of the API; generic scraping when the request
\* or an Article(...) raised; nothing when the status is not 200
ScrapeWordpress(w, url, max_articles) ==
    CASE w.wp.kind = "status" -> Result(<<>>)
      [] w.wp.kind = "posts" /\ \A i \in 1..Len(Take(w.wp.posts, max_articles)) :
                                    ValidArticleUrl(w.wp.posts[i]) ->
            Result(Take(w.wp.posts, max_articles))
      [] OTHER -> ScrapeGenericBlog(w, url, max_articles)

\* _extract_articles_from_content: an Article per long heading of
\* headings[:max_articles], its url the heading's link or the page itself;
\* an Article(...) that raises ends the loop with the articles built so far
ExtractArticlesFromContent(w, base_url, max_articles) ==
    LET hs == SelectSeq(Take(w.headings, max_articles), LAMBDA h : h.long)
        article_url == [n \in 1..Len(hs) |->
                           IF hs[n].href = "" THEN base_url ELSE UrlJoin(base_url, hs[n].href)]
        refused == {n \in 1..Len(hs) : ~ValidArticleUrl(article_url[n])}
        built == IF refused = {} THEN Len(hs)
                 ELSE (CHOOSE n \in refused : \A m \in refused : n <= m) - 1
    IN  IF built = 0 THEN <<>> ELSE SubSeq(article_url, 1, built)

\* _scrape_with_curl and _parse_html_content: a failed curl run raises
ScrapeWithCurl(w, url, max_articles) ==
    IF w.curl2 = "fail" THEN Failure
    ELSE LET articles == ExtractArticlesFromHtml(w, url, max_articles)
         IN  IF Len(articles) > 0 THEN Result(articles)
             ELSE Result(ExtractArticlesFromContent(w, url, max_articles))

\* the aquasec.com branch: the Scira API when enabled, curl when it raised
ScrapeAquasec(w, url, max_articles, enable_scira) ==
    IF enable_scira /\ w.scira.kind = "ok"
    THEN Result(Take(w.scira.links, max_articles))
    ELSE ScrapeWithCurl(w, url, max_articles)

\* the specific-article branch: the one article, or nothing
ScrapeArticle(w, url) ==
    IF ~FetchPageContent(w.p, w.c, min_content_length).some
    THEN [Result(<<>>) EXCEPT !.fetchFailed = TRUE]
    ELSE IF w.parse THEN Result(<<url>>) ELSE Result(<<>>)

\* the feed branch
ScrapeFeed(w, max_articles) ==
    LET r == ScrapeRss(w.feed, max_articles)
    IN  IF r.raised THEN Failure
        ELSE IF Len(w.feed) = 0 THEN [Result(<<>>) EXCEPT !.noEntries = TRUE]
        ELSE IF Len(r.articles) = 0 THEN Result(<<>>)
        ELSE Result([i \in 1..Len(r.articles) |-> r.articles[i].url])

\* _scrape_single_blog(url, max_articles) in world w
ScrapeSingleBlog(w, rawUrl, max_articles, enable_scira) ==
    LET url == NormalizeUrl(rawUrl)
        route == Route(rawUrl)
    IN  CASE route = "article" -> ScrapeArticle(w, url)
          [] route = "rss" -> ScrapeFeed(w, max_articles)
          [] route = "aquasec" -> ScrapeAquasec(w, url, max_articles, enable_scira)
          [] route = "medium" -> ScrapeMedium(w, url, max_articles)
          [] route = "wordpress" -> ScrapeWordpress(w, url, max_articles)
          [] OTHER -> ScrapeGenericBlog(w, url, max_articles)

\* the allowed values of max_articles (models.WebScrapeConfig)
MinArticles == 1
MaxArticles == 50

\* max_articles as callers can pass it: nothing on the way to
\* scrape_blog_articles tests it against the allowed values
BatchMaxes == (1..MaxMax) \cup {-1, 0, MaxArticles + 1}

\* what _scrape_single_blog(url, max_articles) can come to, over the worlds
Scraped ==
    [u \in BatchUrls, m \in BatchMaxes, sc \in BOOLEAN |->
        {ScrapeSingleBlog(w, u, m, sc) : w \in WorldsFor(Route(u))}]

\* pre_fetched_articles: None, or dicts with a url ("" for a missing one)
PreFetched ==
    {<<>>, << [url |-> ""] >>, << [url |-> "https://co.com/blog/a"] >>}

\* the keyword arguments of the Article(...) call of lines 77-83
PrefetchGiven == {"title", "url", "published", "summary", "content"}

\* lines 73-85: raised when an Article(...) call fails, else the articles
Prefetch(pre) ==
    LET used == {i \in 1..Len(pre) : pre[i].url # ""}
    IN  IF \E i \in used : ~ArticleOk(PrefetchGiven, pre[i].url)
        THEN [raised |-> TRUE, articles |-> <<>>]
        ELSE [raised |-> FALSE,
              articles |-> UniqueArticles([i \in 1..Len(pre) |->
                               [url |-> pre[i].url, src |-> 0, idx |-> i]], {""}, Len(pre) + 1)]

\* lines 113-120: the first article of each url, in order
RECURSIVE FinalDedup(_, _)
FinalDedup(all_articles, final_seen_urls) ==
    IF Len(all_articles) = 0 THEN <<>>
    ELSE IF all_articles[1].url \in final_seen_urls
         THEN FinalDedup(Tail(all_articles), final_seen_urls)
         ELSE <<all_articles[1]>>
              \o FinalDedup(Tail(all_articles), final_seen_urls \cup {all_articles[1].url})

UrlsOf(articles) == {articles[i].url : i \in 1..Len(articles)}

BtStart ==
    [pc |-> "idle", n |-> 0, urls |-> <<>>, max |-> 1, pre |-> <<>>, scira |-> FALSE,
     i |-> 0, all_articles |-> <<>>, errors |-> <<>>, seen_urls |-> {},
     final |-> <<>>, delays |-> 0, log |-> <<>>]

\* scrape_blog_articles(urls, max_articles, pre_fetched_articles) is called
\* with n urls; which they are shows as the loop reaches them
BatchBegin ==
    /\ bt.pc = "idle"
    /\ \E n \in 0..MaxSources, m \in BatchMaxes, pre \in PreFetched, sc \in BOOLEAN :
          bt' = [BtStart EXCEPT !.pc = "prefetch", !.n = n, !.max = m, !.pre = pre,
                                !.scira = sc]
    /\ UNCHANGED <<rt, ft, fd, lk, ag, ar, services>>

\* the pre-fetched articles are taken in, then the guard of the source loop
BatchPrefetch ==
    /\ bt.pc = "prefetch"
    /\ LET r == Prefetch(bt.pre)
       IN  IF r.raised
           THEN bt' = [bt EXCEPT !.pc = "raised"]
           ELSE bt' = [bt EXCEPT !.all_articles = r.articles,
                                 !.seen_urls = UrlsOf(r.articles),
                                 !.pc = IF Len(r.articles) < bt.max * bt.n
                                        THEN "loop" ELSE "final"]
    /\ UNCHANGED <<rt, ft, fd, lk, ag, ar, services>>

\* one turn of the source loop: the delay, _scrape_single_blog, the
\* per-source deduplication or the error message
BatchSource ==
    /\ bt.pc = "loop"
    /\ bt.i < bt.n
    /\ \E u \in BatchUrls : \E r \in Scraped[u, bt.max, bt.scira] :
          LET k == bt.i + 1
              url_articles ==
                  IF Len(r.urls) = 0 THEN <<>>
                  ELSE [j \in 1..Len(r.urls) |-> [url |-> r.urls[j], src |-> k, idx |-> j]]
              unique_articles == UniqueArticles(url_articles, bt.seen_urls, bt.max)
          IN  bt' = [bt EXCEPT
                  !.i = k,
                  !.urls = Append(@, u),
                  !.delays = IF bt.i > 0 THEN @ + 1 ELSE @,
                  !.all_articles = IF r.raised THEN @ ELSE @ \o unique_articles,
                  !.seen_urls = IF r.raised THEN @ ELSE @ \cup UrlsOf(unique_articles),
                  !.errors = IF r.raised THEN Append(@, [url |-> u, msg |-> "Error scraping"])
                             ELSE @,
                  !.log = Append(@, [url |-> u, fetchFailed |-> r.fetchFailed,
                                     noEntries |-> r.noEntries,
                                     raised |-> r.raised, yielded |-> Len(r.urls)]),
                  !.pc = IF k = bt.n THEN "final" ELSE "loop"]
    /\ UNCHANGED <<rt, ft, fd, lk, ag, ar, services>>

\* the final deduplication and the return of (final_articles, errors)
BatchFinal ==
    /\ bt.pc = "final"
    /\ bt' = [bt EXCEPT !.pc = "done", !.final = FinalDedup(bt.all_articles, {})]
    /\ UNCHANGED <<rt, ft, fd, lk, ag, ar, services>>

BatchReturn ==
    /\ bt.pc \in {"done", "raised"}
    /\ bt' = BtStart
    /\ UNCHANGED <<rt, ft, fd, lk, ag, ar, services>>

InitBatch ==
    /\ bt = BtStart
    /\ rt = [pc |-> "off"] /\ ft = FtIdle /\ fd = FdIdle /\ lk = LkIdle /\ ag = AgIdle /\ ar = ArIdle
    /\ ServicesOff

NextBatch == BatchBegin \/ BatchPrefetch \/ BatchSource \/ BatchFinal \/ BatchReturn

SpecBatch == InitBatch /\ [][NextBatch]_vars

\* C3: a source whose primary and fallback fetch both failed has no article
\* in the batch result and exactly one message of errors names its URL.
C3_OneErrorPerUnreachable ==
    bt.pc = "done" =>
        \A k \in 1..Len(bt.log) :
            bt.log[k].fetchFailed =>
                /\ \A a \in 1..Len(bt.final) : bt.final[a].src # k
                /\ Cardinality({e \in 1..Len(bt.errors) : bt.errors[e].url = bt.log[k].url}) = 1

\* C21: every article of a batch, kept so far or returned, has a url that
\* begins with http:// or https://.
C21_UrlHasScheme ==
    /\ \A a \in 1..Len(bt.all_articles) : HasHttpScheme(bt.all_articles[a].url)
    /\ \A a \in 1..Len(bt.final) : HasHttpScheme(bt.final[a].url)

\* C21 witness: a batch returned articles although, for a feed source, the
\* Article constructor refused an entry without http link.
C21_Witness ==
    /\ bt.pc = "done"
    /\ Len(bt.final) > 0
    /\ \E k \in 1..Len(bt.log) : bt.log[k].url = "https://co.com/feed" /\ bt.log[k].raised

\* C20: a feed source whose feed has no entries (feedparser gives an
\* unparsable feed no entries either) has no article in the batch result and
\* exactly one message of errors names its URL.
C20_OneErrorPerEmptyFeed ==
    bt.pc = "done" =>
        \A k \in 1..Len(bt.log) :
            bt.log[k].noEntries =>
                /\ \A a \in 1..Len(bt.final) : bt.final[a].src # k
                /\ Cardinality({e \in 1..Len(bt.errors) : bt.errors[e].url = bt.log[k].url}) = 1

\* C17: a batch whose max_articles is outside 1..50 starts no fetch and
\* returns no article.
C17_InvalidMaxFailsFast ==
    bt.max \notin MinArticles..MaxArticles =>
        /\ Len(bt.log) = 0
        /\ Len(bt.final) = 0

\* the number of articles of the batch result that came from source k
FromSource(k) == Cardinality({a \in 1..Len(bt.final) : bt.final[a].src = k})

\* C13: at most max articles of the batch result originate from any one source.
C13_PerSourceCap ==
    (bt.pc = "done" /\ bt.max \in MinArticles..MaxArticles) =>
        \A k \in 1..bt.n : FromSource(k) <= bt.max

\* no global cap: two sources give twice max articles, one of them after its
\* list was cut to max
C13_Witness ==
    /\ bt.pc = "done"
    /\ bt.max \in MinArticles..MaxArticles
    /\ bt.n = 2
    /\ Len(bt.final) = 2 * bt.max
    /\ \E k \in 1..Len(bt.log) : bt.log[k].yielded > bt.max

(***************************************************************************)
(* The making of one Article on each extraction path: the article page      *)
(* (_scrape_single_article and its callers), a feed entry (_scrape_rss), a   *)
(* response of the Scira API (_parse_scira_response, _parse_scira_fallback)  *)
(* and the headings of a page (_extract_articles_from_content).             *)
(***************************************************************************)
IsSpace(s, i) == SubSeq(s, i, i) = " "

\* len(s.split()): the number of whitespace-separated tokens of s
TokenCount(s) ==
    Cardinality({i \in 1..Len(s) : ~IsSpace(s, i) /\ (i = 1 \/ IsSpace(s, i - 1))})

\* re.sub(r'\s+', ' ', text).strip()
RECURSIVE Collapse(_)
Collapse(s) ==
    LET t == Strip(s, " ")
        i == Find(t, "  ")
    IN  IF i = 0 THEN t ELSE Collapse(SubSeq(t, 1, i) \o SubSeq(t, i + 2, Len(t)))

\* re.sub(pattern + '.*', '', text, flags=re.IGNORECASE) for a literal pattern
CutFrom(s, pattern) ==
    LET i == Find(Lower(s), pattern)
    IN  IF i = 0 THEN s ELSE SubSeq(s, 1, i - 1)

\* _clean_text
CleanText(text) ==
    IF text = "" THEN ""
    ELSE CutFrom(CutFrom(CutFrom(CutFrom(Collapse(text), "original story from"),
                                 "read more"), "continue reading"), "view comments")

\* the selectors of the title search in order, with their scores
title_selectors ==
    << [sel |-> "h1", score |-> 10], [sel |-> "h2", score |-> 8], [sel |-> "h3", score |-> 6],
       [sel |-> "title", score |-> 4], [sel |-> ".article-title", score |-> 2],
       [sel |-> ".post-title", score |-> 2], [sel |-> ".entry-title", score |-> 2],
       [sel |-> "[class*=title]", score |-> 2] >>

\* the title of the page: the first element, in selector order, of the
\* highest score among those with more than 10 characters; else "Untitled"
RECURSIVE BestTitle(_, _, _, _)
BestTitle(elems, n, best, best_score) ==
    IF n > Len(title_selectors) THEN best
    ELSE LET sel == title_selectors[n]
             hit == \E e \in elems : e.sel = sel.sel /\ Len(e.text) > 10
         IN  IF hit /\ sel.score > best_score
             THEN BestTitle(elems, n + 1,
                            (CHOOSE e \in elems : e.sel = sel.sel /\ Len(e.text) > 10).text,
                            sel.score)
             ELSE BestTitle(elems, n + 1, best, best_score)

\* datetime.fromisoformat on the text of the date element; None when there
\* is no element or the text is no ISO date
IsoDates == {"2024-03-01"}

PublishDate(date_text) == IF date_text \in IsoDates THEN date_text ELSE None

NoDraft == [some |-> FALSE, url |-> "", title |-> "", content |-> "", publish_date |-> None]

\* _scrape_single_article(url) on a page: None when the page was not fetched
\* or no content block was found
ScrapeSingleArticle(url, page) ==
    IF ~FetchPageContent(page.p, page.c, min_content_length).some THEN NoDraft
    ELSE IF page.block = None THEN NoDraft
    ELSE [some |-> TRUE, url |-> url,
          title |-> BestTitle(page.titles, 1, "Untitled", 0),
          content |-> CleanText(page.block),
          publish_date |-> PublishDate(page.date)]

\* Article(...) with word_count=len(content.split()), as lines 141-149 and
\* 1017-1025 build it from the dict
ArticleOfDraft(d) ==
    [url |-> d.url, title |-> d.title, content |-> d.content,
     publish_date |-> d.publish_date, word_count |-> TokenCount(d.content)]

ArticlePageBlocks ==
    {None, "A first  paragraph of the post", "The post body Read more about this"}

ArticlePageTitles ==
    {{}, {[sel |-> "h1", text |-> "short"]},
     {[sel |-> "h2", text |-> "A second-level heading"],
      [sel |-> "title", text |-> "Page title of the site"]}}

ArticlePages ==
    {[p |-> f.p, c |-> f.c, block |-> b, titles |-> t, date |-> d] :
        f \in FetchWorlds, b \in ArticlePageBlocks, t \in ArticlePageTitles,
        d \in {None, "2024-03-01", "March 1"}}

EntryContents == {"", "alpha", "alpha beta  gamma"}

\* _scrape_rss: the Article of one feed entry
ArticleOfEntry(entry) ==
    [url |-> entry.link, title |-> entry.title, content |-> entry.content,
     publish_date |-> None, word_count |-> TokenCount(entry.content)]

\* a response of the Scira API: whether it holds a JSON array (none, one that
\* json.loads accepts, one it rejects), the objects of the array, and the
\* "Title:" and "URL:" lines of the text
SciraResponses ==
    {[array |-> a, items |-> it, titles |-> ti, urls |-> us] :
        a \in {"none", "valid", "malformed"},
        it \in {<<>>, << [url |-> "https://aquasec.com/blog/a", content |-> "alpha beta"] >>,
                << [url |-> "", content |-> "alpha"] >>},
        ti \in {<<>>, <<"First post">>, <<"First post", "Second post">>},
        us \in {<<>>, <<"https://aquasec.com/blog/a">>}}

\* _parse_scira_fallback: an Article per "Title:" line
ParseSciraFallback(response, base_url) ==
    [i \in 1..Len(response.titles) |->
        [url |-> IF i <= Len(response.urls) THEN response.urls[i] ELSE base_url,
         title |-> response.titles[i],
         content |-> "Content not available in fallback parsing",
         publish_date |-> None, word_count |-> 0]]

\* _parse_scira_response: the objects of the array that make an Article; the
\* regex extraction when json.loads raised; nothing when there is no array
ParseSciraResponse(response, base_url) ==
    IF response.array = "none" THEN <<>>
    ELSE IF response.array = "valid"
    THEN LET ok == SelectSeq(response.items, LAMBDA d : ValidArticleUrl(d.url))
         IN  [i \in 1..Len(ok) |->
                 [url |-> ok[i].url, title |-> "", content |-> ok[i].content,
                  publish_date |-> None, word_count |-> TokenCount(ok[i].content)]]
    ELSE ParseSciraFallback(response, base_url)

\* _extract_articles_from_content: the Article of a heading
ArticleOfHeading(base_url, title) ==
    [url |-> base_url, title |-> title,
     content |-> "Content not available - use curl to fetch individual articles",
     publish_date |-> None, word_count |-> 0]

ArticleUrl == "https://co.com/blog/a"

SciraBase == "https://aquasec.com/blog"

FeedEntryInputs == [link : {ArticleUrl}, title : {"A feed entry"}, content : EntryContents]

HeadingInputs == {<<>>, <<"A heading of the page">>}

ArStart == [pc |-> "idle", job |-> None, input |-> None, draft |-> NoDraft, out |-> <<>>]

\* one extraction is started: an article page, a feed entry, an API response
\* or the headings of a page
ArticleBegin ==
    /\ ar.pc = "idle"
    /\ \/ \E page \in ArticlePages : ar' = [ArStart EXCEPT !.pc = "single", !.job = "single", !.input = page]
       \/ \E entry \in FeedEntryInputs : ar' = [ArStart EXCEPT !.pc = "entry", !.job = "entry", !.input = entry]
       \/ \E r \in SciraResponses : ar' = [ArStart EXCEPT !.pc = "scira", !.job = "scira", !.input = r]
       \/ \E h \in HeadingInputs : ar' = [ArStart EXCEPT !.pc = "headings", !.job = "headings", !.input = h]
    /\ UNCHANGED <<rt, ft, fd, lk, bt, ag, services>>

\* _scrape_single_article and the Article its caller builds from the dict
ArticleSingle ==
    /\ ar.pc = "single"
    /\ LET d == ScrapeSingleArticle(ArticleUrl, ar.input)
       IN  ar' = [ar EXCEPT !.pc = "done", !.draft = d,
                            !.out = IF d.some THEN <<ArticleOfDraft(d)>> ELSE <<>>]
    /\ UNCHANGED <<rt, ft, fd, lk, bt, ag, services>>

ArticleEntry ==
    /\ ar.pc = "entry"
    /\ ar' = [ar EXCEPT !.pc = "done", !.out = <<ArticleOfEntry(ar.input)>>]
    /\ UNCHANGED <<rt, ft, fd, lk, bt, ag, services>>

ArticleScira ==
    /\ ar.pc = "scira"
    /\ ar' = [ar EXCEPT !.pc = "done", !.out = ParseSciraResponse(ar.input, SciraBase)]
    /\ UNCHANGED <<rt, ft, fd, lk, bt, ag, services>>

ArticleHeadings ==
    /\ ar.pc = "headings"
    /\ ar' = [ar EXCEPT !.pc = "done",
                        !.out = [i \in 1..Len(ar.input) |-> ArticleOfHeading(SciraBase, ar.input[i])]]
    /\ UNCHANGED <<rt, ft, fd, lk, bt, ag, services>>

ArticleReturn ==
    /\ ar.pc = "done"
    /\ ar' = ArStart
    /\ UNCHANGED <<rt, ft, fd, lk, bt, ag, services>>

InitArticle ==
    /\ ar = ArStart
    /\ rt = [pc |-> "off"] /\ ft = FtIdle /\ fd = FdIdle /\ lk = LkIdle /\ bt = BtIdle /\ ag = AgIdle
    /\ ServicesOff

NextArticle ==
    ArticleBegin \/ ArticleSingle \/ ArticleEntry \/ ArticleScira \/ ArticleHeadings
    \/ ArticleReturn

SpecArticle == InitArticle /\ [][NextArticle]_vars

\* C15: a fetched article page always gives a draft; without a title the
\* draft is "Untitled", without a content block its content is empty, without
\* a date its date is absent.
C15_DraftForEveryFetchedPage ==
    (ar.pc = "done" /\ ar.job = "single"
        /\ FetchPageContent(ar.input.p, ar.input.c, min_content_length).some) =>
        /\ ar.draft.some /\ Len(ar.out) = 1
        /\ (\A e \in ar.input.titles : Len(e.text) <= 10) => ar.draft.title = "Untitled"
        /\ ar.input.block = None => ar.draft.content = ""
        /\ ar.input.date \notin IsoDates => ar.draft.publish_date = None

\* C16: the word_count of every article returned equals the number of
\* whitespace-separated tokens of its content.
C16_WordCountIsTokenCount ==
    ar.pc = "done" =>
        \A i \in 1..Len(ar.out) : ar.out[i].word_count = TokenCount(ar.out[i].content)

\* C19: a response that does not parse as the expected array, one without
\* any array included, goes through the "Title:"/"URL:" extraction.
C19_RegexOnEveryParseFailure ==
    (ar.pc = "done" /\ ar.job = "scira" /\ ar.input.array # "valid") =>
        ar.out = ParseSciraFallback(ar.input, SciraBase)

\* the part of a URL the feed indicators are specified on: path and query
PathAndQuery(url) == UrlPath(url) \o UrlTail(url)

HasFeedIndicator(url) ==
    \E ind \in rss_indicators : Contains(Lower(PathAndQuery(NormalizeUrl(url))), ind)

\* the exclusion list read as written: "$" ends the path, the other entries
\* are substrings
ExcludedAsStated(path) ==
    \/ EndsWith(path, "/blog")
    \/ \E p \in exclusion_patterns \ {"/blog$", "/blog/$"} : Contains(path, p)

SpecificAsStated(url) ==
    LET path == Lower(UrlPath(NormalizeUrl(url)))
    IN  /\ \E p \in specific_article_patterns : Contains(path, p)
        /\ ~ExcludedAsStated(path)
        /\ NonEmptyParts(path, "/") >= 2

\* C18: a source URL without feed indicator goes to the single-article branch
\* exactly when its path holds an article pattern, matches no exclusion entry
\* and has two or more non-empty segments (so never when the path ends with
\* /blog); otherwise it goes to one of the blog-index branches.
C18_SpecificArticleIff ==
    (rt.pc = "routed" /\ ~HasFeedIndicator(rt.url)) =>
        /\ rt.route = "article" <=> SpecificAsStated(rt.url)
        /\ rt.route # "rss"

\* C4: every source URL whose path or query contains /feed, /rss, .xml or /atom
\* (case-insensitive) is routed to the feed branch, also when the path holds
\* /blog/ or another article pattern and two or more segments.
C4_FeedFirst ==
    (rt.pc = "routed" /\ HasFeedIndicator(rt.url)) => rt.route = "rss"

(***************************************************************************)
(* The event loop under a batch: the coroutine scrape_blog_articles is one  *)
(* task of a single-threaded asyncio loop and another task is pending.  An  *)
(* await hands the thread back to the loop; subprocess.run and              *)
(* feedparser.parse(url) are plain calls and keep it until they return.     *)
(***************************************************************************)
MaxOtherSteps == 3

SourceKinds == {"page", "feed"}

ElStart ==
    [pc |-> "idle", kinds |-> <<>>, i |-> 0, holder |-> None, ext |-> None, other |-> 0]

\* a batch of one or more sources is started; the batch task gets the thread
LoopBegin ==
    /\ el.pc = "idle"
    /\ \E ks \in SeqsUpTo(SourceKinds, MaxSources) \ {<<>>} :
          el' = [ElStart EXCEPT !.pc = "source", !.kinds = ks, !.holder = "batch",
                                !.other = el.other]
    /\ UNCHANGED <<pipeline, px, ch, ts, wf, sv, cn, cm>>

\* await asyncio.sleep(request_delay) before every source but the first
LoopSleep ==
    /\ el.pc = "source" /\ el.holder = "batch" /\ el.i > 0
    /\ el' = [el EXCEPT !.pc = "sleeping", !.holder = None]
    /\ UNCHANGED <<pipeline, px, ch, ts, wf, sv, cn, cm>>

\* the delay is over and the loop resumes the batch task
LoopWake ==
    /\ el.pc = "sleeping" /\ el.holder = None
    /\ el' = [el EXCEPT !.pc = "route", !.holder = "batch"]
    /\ UNCHANGED <<pipeline, px, ch, ts, wf, sv, cn, cm>>

\* the first source is taken without a delay
LoopFirst ==
    /\ el.pc = "source" /\ el.holder = "batch" /\ el.i = 0
    /\ el' = [el EXCEPT !.pc = "route"]
    /\ UNCHANGED <<pipeline, px, ch, ts, wf, sv, cn, cm>>

\* a page source: async with self.session.get(url) suspends the batch task
LoopPrimarySend ==
    /\ el.pc = "route" /\ el.kinds[el.i + 1] = "page"
    /\ el' = [el EXCEPT !.pc = "primary", !.holder = None, !.ext = "primary"]
    /\ UNCHANGED <<pipeline, px, ch, ts, wf, sv, cn, cm>>

\* the response or the failure arrives and the batch task is resumed: done
\* with the source, or on to _fetch_with_curl, whose subprocess.run starts
\* curl and waits for it inside the call
LoopPrimaryArrive ==
    /\ el.pc = "primary" /\ el.holder = None
    /\ \E o \in PrimaryOutcomes :
          IF PrimaryFetch(o, min_content_length).some
          THEN el' = [el EXCEPT !.pc = "next", !.holder = "batch", !.ext = None]
          ELSE el' = [el EXCEPT !.pc = "curl", !.holder = "batch", !.ext = "curl"]
    /\ UNCHANGED <<pipeline, px, ch, ts, wf, sv, cn, cm>>

\* a feed source: feedparser.parse(url) downloads the feed inside the call
LoopFeedParse ==
    /\ el.pc = "route" /\ el.kinds[el.i + 1] = "feed"
    /\ el' = [el EXCEPT !.pc = "feed", !.ext = "feed"]
    /\ UNCHANGED <<pipeline, px, ch, ts, wf, sv, cn, cm>>

\* curl exits or the feed download ends: the call returns
LoopExternalReturn ==
    /\ el.pc \in {"curl", "feed"}
    /\ el' = [el EXCEPT !.pc = "next", !.ext = None]
    /\ UNCHANGED <<pipeline, px, ch, ts, wf, sv, cn, cm>>

\* the source is done: the next one, or the end of the batch task
LoopNext ==
    /\ el.pc = "next"
    /\ el' = [el EXCEPT !.i = @ + 1,
                        !.pc = IF el.i + 1 = Len(el.kinds) THEN "idle" ELSE "source",
                        !.holder = IF el.i + 1 = Len(el.kinds) THEN None ELSE "batch"]
    /\ UNCHANGED <<pipeline, px, ch, ts, wf, sv, cn, cm>>

\* the other pending task runs one step: only when the loop has the thread
LoopOther ==
    /\ el.pc # "off" /\ el.holder = None
    /\ el.other < MaxOtherSteps
    /\ el' = [el EXCEPT !.other = @ + 1]
    /\ UNCHANGED <<pipeline, px, ch, ts, wf, sv, cn, cm>>

InitLoop == el = ElStart /\ PipelineOff /\ px = Off /\ ch = Off /\ ts = Off
            /\ wf = Off /\ sv = Off /\ cn = Off /\ cm = Off

NextLoop ==
    \/ LoopBegin \/ LoopSleep \/ LoopWake \/ LoopFirst \/ LoopPrimarySend
    \/ LoopPrimaryArrive \/ LoopFeedParse \/ LoopExternalReturn \/ LoopNext \/ LoopOther

SpecLoop == InitLoop /\ [][NextLoop]_vars

\* C22: whenever the batch is waiting for an external call (the primary
\* request, curl, the feed download) the other pending task can take a step.
C22_ExternalCallsSuspend ==
    (el.ext # None /\ el.other < MaxOtherSteps) => ENABLED LoopOther

(***************************************************************************)
(* The proxy arguments of the curl command, _get_curl_proxy_args of the     *)
(* scraper and of the agent.  An unset setting or variable is "".           *)
(***************************************************************************)
ProxyUrls == {"", "http://p.example:8080", "socks5://p.example:1080", "p.example:8080"}

ProxySettings ==
    [enable_proxy : BOOLEAN, proxy_url : ProxyUrls,
     proxy_username : {"", "user"}, proxy_password : {"", "secret"}]

ProxyEnvs ==
    [http_proxy : {"", "http://lower.example:1"}, HTTP_PROXY : {"", "http://upper.example:2"},
     https_proxy : {"", "http://slower.example:3"}, HTTPS_PROXY : {"", "http://supper.example:4"}]

\* a or b
Or(a, b) == IF a # "" THEN a ELSE b

\* proxy_url.split('://')[1]: what lies between the first "://" and the next
HostPort(proxy_url) ==
    LET rest == SubSeq(proxy_url, AfterScheme(proxy_url), Len(proxy_url))
    IN  IF Contains(rest, "://") THEN SubSeq(rest, 1, Find(rest, "://") - 1) ELSE rest

\* the branch taken when the settings proxy is enabled and has a URL
SettingsProxyArgs(st) ==
    IF st.proxy_username # "" /\ st.proxy_password # ""
    THEN IF HasHttpScheme(st.proxy_url)
         THEN <<"--proxy", UrlScheme(st.proxy_url) \o "://" \o st.proxy_username \o ":"
                               \o st.proxy_password \o "@" \o HostPort(st.proxy_url)>>
         ELSE <<"--proxy", st.proxy_url>>
    ELSE <<"--proxy", st.proxy_url>>

EnvProxyArgs(http_proxy, https_proxy) ==
    IF http_proxy # "" THEN <<"--proxy", http_proxy>>
    ELSE IF https_proxy # "" THEN <<"--proxy", https_proxy>>
    ELSE <<>>

\* AsyncWebScraper._get_curl_proxy_args: the lower-case variables come first
GetCurlProxyArgs(st, env) ==
    IF st.enable_proxy /\ st.proxy_url # "" THEN SettingsProxyArgs(st)
    ELSE EnvProxyArgs(Or(env.http_proxy, env.HTTP_PROXY), Or(env.https_proxy, env.HTTPS_PROXY))

\* IndustryNewsAgent._get_curl_proxy_args: the upper-case variables come first
AgentGetCurlProxyArgs(st, env) ==
    IF st.enable_proxy /\ st.proxy_url # "" THEN SettingsProxyArgs(st)
    ELSE EnvProxyArgs(Or(env.HTTP_PROXY, env.http_proxy), Or(env.HTTPS_PROXY, env.https_proxy))

PxStart == [pc |-> "idle", settings |-> None, env |-> None, by |-> None, proxy_args |-> <<>>]

\* the process runs with some settings and some environment
ProxyConfigure ==
    /\ px.pc = "idle"
    /\ \E st \in ProxySettings, env \in ProxyEnvs :
          px' = [PxStart EXCEPT !.pc = "ready", !.settings = st, !.env = env]
    /\ UNCHANGED <<pipeline, el, ch, ts, wf, sv, cn, cm>>

\* the scraper builds a curl command
ProxyScraperArgs ==
    /\ px.pc = "ready"
    /\ px' = [px EXCEPT !.pc = "done", !.by = "web_scraper",
                        !.proxy_args = GetCurlProxyArgs(px.settings, px.env)]
    /\ UNCHANGED <<pipeline, el, ch, ts, wf, sv, cn, cm>>

\* the agent builds a curl command
ProxyAgentArgs ==
    /\ px.pc = "ready"
    /\ px' = [px EXCEPT !.pc = "done", !.by = "agent",
                        !.proxy_args = AgentGetCurlProxyArgs(px.settings, px.env)]
    /\ UNCHANGED <<pipeline, el, ch, ts, wf, sv, cn, cm>>

ProxyReturn ==
    /\ px.pc = "done"
    /\ px' = PxStart
    /\ UNCHANGED <<pipeline, el, ch, ts, wf, sv, cn, cm>>

InitProxy == px = PxStart /\ PipelineOff /\ el = Off /\ ch = Off /\ ts = Off
             /\ wf = Off /\ sv = Off /\ cn = Off /\ cm = Off

NextProxy == ProxyConfigure \/ ProxyScraperArgs \/ ProxyAgentArgs \/ ProxyReturn

SpecProxy == InitProxy /\ [][NextProxy]_vars

EnvProxies(env) == {env.http_proxy, env.HTTP_PROXY, env.https_proxy, env.HTTPS_PROXY} \ {""}

\* C24: the command gets at most one --proxy argument.  With the settings
\* proxy enabled and given a URL it is the settings proxy, carrying
\* username:password@ when both are set; otherwise it is one of the
\* environment's proxies, or none when the environment has none.
C24_ProxyPrecedence ==
    px.pc = "done" =>
        LET st == px.settings
            args == px.proxy_args
        IN  /\ Len(args) \in {0, 2}
            /\ Len(args) = 2 => args[1] = "--proxy"
            /\ IF st.enable_proxy /\ st.proxy_url # ""
               THEN /\ Len(args) = 2
                    /\ IF st.proxy_username # "" /\ st.proxy_password # ""
                       THEN /\ Contains(args[2], st.proxy_username \o ":" \o st.proxy_password \o "@")
                            /\ EndsWith(args[2], HostPort(st.proxy_url))
                       ELSE args[2] = st.proxy_url
               ELSE IF EnvProxies(px.env) = {} THEN args = <<>>
                    ELSE Len(args) = 2 /\ args[2] \in EnvProxies(px.env)

(***************************************************************************)
(* The URL cache of the scraper, AsyncWebScraper.is_cached.  Times are in   *)
(* seconds; an entry is kept under the hash of its URL.                     *)
(***************************************************************************)
SecondsPerDay == 86400

CacheUrls == {"https://co.com/blog", "https://co.com/feed"}

\* hashlib.md5(url.encode()).hexdigest(), one key per URL of the model
GenerateCacheKey(url) == "md5:" \o url

\* the ages of the entry looked at, around the TTLs and around whole days
CacheAges ==
    {0, 59, 60, 61, 21599, 21600, SecondsPerDay - 1, SecondsPerDay, SecondsPerDay + 10,
     SecondsPerDay + 21600, 2 * SecondsPerDay + 59, 2 * SecondsPerDay + 60}

CacheTtls == {1, 360, 1440}

CacheNow == 3 * SecondsPerDay

NoTimestamp == -1

\* timedelta.seconds: the seconds left after the whole days are taken out
TimedeltaSeconds(delta) == delta % SecondsPerDay

\* entry.get('timestamp', datetime.now()): the default is a second reading of
\* the clock, taken after the first
TimestampOf(entry, later) == IF entry.timestamp = NoTimestamp THEN later ELSE entry.timestamp

\* now and later are the two readings of the clock
IsCached(cache, url, now, later, cache_ttl_minutes) ==
    LET key == GenerateCacheKey(url)
    IN  /\ key \in DOMAIN cache
        /\ TimedeltaSeconds(now - TimestampOf(cache[key], later)) < cache_ttl_minutes * 60

ChStart ==
    [pc |-> "idle", cache |-> << >>, url |-> "", ttl |-> 1, now |-> CacheNow, result |-> FALSE]

\* a scraper whose cache is empty or holds one entry is asked about a URL
CacheAsk ==
    /\ ch.pc = "idle"
    /\ \E u \in CacheUrls, ttl \in CacheTtls :
          \/ ch' = [ChStart EXCEPT !.pc = "asked", !.url = u, !.ttl = ttl]
          \/ \E stored \in CacheUrls, t \in {CacheNow - a : a \in CacheAges} \cup {NoTimestamp} :
                ch' = [ChStart EXCEPT !.pc = "asked", !.url = u, !.ttl = ttl,
                          !.cache = (GenerateCacheKey(stored) :> [timestamp |-> t])]
    /\ UNCHANGED <<pipeline, el, px, ts, wf, sv, cn, cm>>

CacheIsCached ==
    /\ ch.pc = "asked"
    /\ \E later \in {ch.now, ch.now + 1} :
          ch' = [ch EXCEPT !.pc = "done",
                    !.result = IsCached(ch.cache, ch.url, ch.now, later, ch.ttl)]
    /\ UNCHANGED <<pipeline, el, px, ts, wf, sv, cn, cm>>

CacheReturn ==
    /\ ch.pc = "done"
    /\ ch' = ChStart
    /\ UNCHANGED <<pipeline, el, px, ts, wf, sv, cn, cm>>

InitCache == ch = ChStart /\ PipelineOff /\ el = Off /\ px = Off /\ ts = Off
             /\ wf = Off /\ sv = Off /\ cn = Off /\ cm = Off

NextCache == CacheAsk \/ CacheIsCached \/ CacheReturn

SpecCache == InitCache /\ [][NextCache]_vars

MaxTasks == 2

TaskIds == 1..MaxTasks

\* what agent.run_workflow hands back, or an exception out of the try block
WorkflowResults == {"completed", "error", "raise"}

NoTask == [pc |-> "none", status |-> None, cancelled_at |-> FALSE]

\* generate_report_form: the coroutine is created and the entry is written
TaskSubmit ==
    /\ \E t \in TaskIds :
          /\ ts[t].pc = "none"
          /\ ts' = [ts EXCEPT ![t] = [NoTask EXCEPT !.pc = "queued", !.status = "processing"]]
    /\ UNCHANGED <<pipeline, el, px, ch, wf, sv, cn, cm>>

\* _process_report_task up to its first await: the status is written
TaskStart ==
    /\ \E t \in TaskIds :
          /\ ts[t].pc = "queued"
          /\ ts' = [ts EXCEPT ![t].pc = "starting", ![t].status = "processing"]
    /\ UNCHANGED <<pipeline, el, px, ch, wf, sv, cn, cm>>

\* the start is recorded and broadcast; then the workflow is awaited
TaskRunWorkflow ==
    /\ \E t \in TaskIds :
          /\ ts[t].pc = "starting"
          /\ ts' = [ts EXCEPT ![t].pc = "workflow"]
    /\ UNCHANGED <<pipeline, el, px, ch, wf, sv, cn, cm>>

\* the workflow is over: running_tasks[task_id].update({"status": ...}) with
\* the result's status, or with "error" in the except clause
TaskUpdate ==
    /\ \E t \in TaskIds, result \in WorkflowResults :
          /\ ts[t].pc = "workflow"
          /\ ts' = [ts EXCEPT ![t].pc = "closing",
                              ![t].status = IF result = "raise" THEN "error" ELSE result]
    /\ UNCHANGED <<pipeline, el, px, ch, wf, sv, cn, cm>>

\* the end is recorded and broadcast; the coroutine ends
TaskEnd ==
    /\ \E t \in TaskIds :
          /\ ts[t].pc = "closing"
          /\ ts' = [ts EXCEPT ![t].pc = "ended"]
    /\ UNCHANGED <<pipeline, el, px, ch, wf, sv, cn, cm>>

\* DELETE /api/task/{task_id} for a task of running_tasks, between two turns
\* of its coroutine (the id is known to a client once the coroutine has started)
CancelTask ==
    /\ \E t \in TaskIds :
          /\ ts[t].pc \notin {"none", "queued"}
          /\ ts[t].status = "processing"
          /\ ts' = [ts EXCEPT ![t].status = "cancelled", ![t].cancelled_at = TRUE]
    /\ UNCHANGED <<pipeline, el, px, ch, wf, sv, cn, cm>>

InitTask == ts = [t \in TaskIds |-> NoTask] /\ PipelineOff /\ el = Off /\ px = Off
            /\ ch = Off /\ wf = Off /\ sv = Off /\ cn = Off /\ cm = Off

NextTask ==
    TaskSubmit \/ TaskStart \/ TaskRunWorkflow \/ TaskUpdate \/ TaskEnd \/ CancelTask

SpecTask == InitTask /\ [][NextTask]_vars

\* C26: a task whose status is "cancelled" keeps that status in every step.
C26_CancelledStays ==
    [][\A t \in TaskIds : ts[t].status = "cancelled" => ts'[t].status = "cancelled"]_vars

(***************************************************************************)
(* The report workflow, IndustryNewsAgent.run_workflow: the nodes of the    *)
(* graph run one after the other on one state dict.  Two agents exist: the  *)
(* four-node one of src/agent.py and the six-node one of the use case.      *)
(* articles is "absent" (key not set), "empty" or "some".                   *)
(***************************************************************************)
WorkflowAgents == {"src", "use_case"}

NodeOutcomes == {"some", "empty", "raise"}

WfStart ==
    [pc |-> "idle", agent |-> "src", recipients |-> FALSE, articles |-> "absent",
     processing_status |-> None, report_path_md |-> FALSE, email_sent |-> FALSE,
     failed |-> {}, status |-> None]

\* `not articles`
NoArticles(articles) == articles \in {"absent", "empty"}

\* a node records a failure
NodeError(state, node) ==
    [state EXCEPT !.processing_status = "error", !.failed = @ \cup {node}]

\* run_workflow builds the initial state and invokes the graph
WorkflowBegin ==
    /\ wf.pc = "idle"
    /\ \E a \in WorkflowAgents, r \in BOOLEAN :
          /\ r => a = "use_case"
          /\ wf' = [WfStart EXCEPT !.pc = "validate_urls", !.agent = a, !.recipients = r,
                                   !.processing_status = "starting"]
    /\ UNCHANGED <<pipeline, el, px, ch, ts, sv, cn, cm>>

WorkflowValidateUrls ==
    /\ wf.pc = "validate_urls"
    /\ wf' = [wf EXCEPT !.pc = "scrape_articles", !.processing_status = "urls_validated"]
    /\ UNCHANGED <<pipeline, el, px, ch, ts, sv, cn, cm>>

\* _scrape_articles: src/agent.py raises inside its try block when no article
\* was found; the use case stores the empty list
WorkflowScrapeArticles ==
    /\ wf.pc = "scrape_articles"
    /\ \E o \in NodeOutcomes :
          LET failure == o = "raise" \/ (o = "empty" /\ wf.agent = "src")
          IN  wf' = [(IF failure THEN NodeError(wf, "scrape_articles")
                      ELSE [wf EXCEPT !.articles = o,
                                      !.processing_status = "articles_scraped"])
                     EXCEPT !.pc = "analyze_content"]
    /\ UNCHANGED <<pipeline, el, px, ch, ts, sv, cn, cm>>

\* _analyze_content
WorkflowAnalyzeContent ==
    /\ wf.pc = "analyze_content"
    /\ \E o \in NodeOutcomes :
          wf' = [(IF NoArticles(wf.articles) \/ o = "raise"
                  THEN NodeError(wf, "analyze_content")
                  ELSE [wf EXCEPT !.articles = o, !.processing_status = "content_analyzed"])
                 EXCEPT !.pc = IF wf.agent = "src" THEN "generate_reports"
                               ELSE "generate_aggregation"]
    /\ UNCHANGED <<pipeline, el, px, ch, ts, sv, cn, cm>>

\* _generate_aggregation of the use case: no try block, the status is set
\* whether or not there are articles
WorkflowGenerateAggregation ==
    /\ wf.pc = "generate_aggregation"
    /\ wf' = [wf EXCEPT !.pc = "generate_reports",
                        !.processing_status = "aggregation_complete"]
    /\ UNCHANGED <<pipeline, el, px, ch, ts, sv, cn, cm>>

\* _generate_reports: without articles src/agent.py sets "error", the use
\* case "reports_generated"; with articles "completed" and "reports_generated"
WorkflowGenerateReports ==
    /\ wf.pc = "generate_reports"
    /\ \E o \in {"paths", "no_markdown", "raise"} :
          LET next == IF wf.agent = "src" THEN "end" ELSE "send_emails"
              done == IF wf.agent = "src" THEN "completed" ELSE "reports_generated"
          IN  /\ NoArticles(wf.articles) => o = "raise"
              /\ wf' = [(IF NoArticles(wf.articles)
                         THEN IF wf.agent = "src"
                              THEN [NodeError(wf, "generate_reports")
                                        EXCEPT !.report_path_md = FALSE]
                              ELSE [wf EXCEPT !.processing_status = done,
                                              !.report_path_md = FALSE]
                         ELSE IF o = "raise" THEN NodeError(wf, "generate_reports")
                         ELSE [wf EXCEPT !.processing_status = done,
                                         !.report_path_md = (o = "paths")])
                        EXCEPT !.pc = next]
    /\ UNCHANGED <<pipeline, el, px, ch, ts, sv, cn, cm>>

\* _send_emails of the use case: "completed" also when no mail could be sent
WorkflowSendEmails ==
    /\ wf.pc = "send_emails"
    /\ \E o \in {"sent", "none_sent", "raise"} :
          /\ (~wf.recipients \/ ~wf.report_path_md) => o = "sent"
          /\ wf' = [(IF ~wf.recipients THEN [wf EXCEPT !.processing_status = "completed"]
                     ELSE IF ~wf.report_path_md \/ o = "raise"
                          THEN NodeError(wf, "send_emails")
                     ELSE [wf EXCEPT !.processing_status = "completed",
                                     !.email_sent = (o = "sent")])
                    EXCEPT !.pc = "end"]
    /\ UNCHANGED <<pipeline, el, px, ch, ts, sv, cn, cm>>

\* run_workflow returns {"status": final_state.get("processing_status", ...)}
WorkflowReturn ==
    /\ wf.pc = "end"
    /\ wf' = [wf EXCEPT !.pc = "returned", !.status = wf.processing_status]
    /\ UNCHANGED <<pipeline, el, px, ch, ts, sv, cn, cm>>

WorkflowReset ==
    /\ wf.pc = "returned"
    /\ wf' = WfStart
    /\ UNCHANGED <<pipeline, el, px, ch, ts, sv, cn, cm>>

InitWorkflow == wf = WfStart /\ PipelineOff /\ el = Off /\ px = Off /\ ch = Off
                /\ ts = Off /\ sv = Off /\ cn = Off /\ cm = Off

NextWorkflow ==
    \/ WorkflowBegin \/ WorkflowValidateUrls \/ WorkflowScrapeArticles
    \/ WorkflowAnalyzeContent \/ WorkflowGenerateAggregation \/ WorkflowGenerateReports
    \/ WorkflowSendEmails \/ WorkflowReturn \/ WorkflowReset

SpecWorkflow == InitWorkflow /\ [][NextWorkflow]_vars

\* C27: a run in which some node set processing_status to "error" returns
\* the status "error"; a run returns "completed" only when no node failed.
C27_NodeFailureIsFinal ==
    wf.pc = "returned" =>
        /\ wf.failed # {} => wf.status = "error"
        /\ wf.status = "completed" => wf.failed = {}

(***************************************************************************)
(* SchedulerService: start() tests _running, creates a TaskProcessor and    *)
(* awaits its run(), which loops until the processor is shut down; only     *)
(* after run() has returned does start() set _running.                      *)
(***************************************************************************)
MaxStarts == 3

StartCalls == 1..MaxStarts

SvStart == [running |-> FALSE, calls |-> [c \in StartCalls |-> "none"], created |-> 0]

\* processors that are inside run()
RunningProcessors == {c \in StartCalls : sv.calls[c] \in {"initialize", "schedule", "loop"}}

\* sys.exit(1) in run() ends the process
ProcessAlive == \A c \in StartCalls : sv.calls[c] # "exited"

\* a call of start(), up to its first await: the test of _running,
\* TaskProcessor() and the entry into run()
SchedulerStart ==
    /\ ProcessAlive
    /\ \E c \in StartCalls :
          /\ sv.calls[c] = "none"
          /\ IF sv.running
             THEN sv' = [sv EXCEPT !.calls[c] = "returned"]
             ELSE sv' = [sv EXCEPT !.calls[c] = "initialize", !.created = @ + 1]
    /\ UNCHANGED <<pipeline, el, px, ch, ts, wf, cn, cm>>

\* run(): await initialize_services(), then scheduler.start(); a failure
\* ends in sys.exit(1)
SchedulerInitialize ==
    /\ ProcessAlive
    /\ \E c \in StartCalls, ok \in BOOLEAN :
          /\ sv.calls[c] = "initialize"
          /\ sv' = [sv EXCEPT !.calls[c] = IF ok THEN "schedule" ELSE "exited"]
    /\ UNCHANGED <<pipeline, el, px, ch, ts, wf, cn, cm>>

\* run(): await schedule_all_tasks(), the refresh job, then the sleep loop
SchedulerSchedule ==
    /\ ProcessAlive
    /\ \E c \in StartCalls :
          /\ sv.calls[c] = "schedule"
          /\ sv' = [sv EXCEPT !.calls[c] = "loop"]
    /\ UNCHANGED <<pipeline, el, px, ch, ts, wf, cn, cm>>

\* run() comes back (its loop was interrupted and the scheduler shut down):
\* start() sets _running and returns
SchedulerRunReturns ==
    /\ ProcessAlive
    /\ \E c \in StartCalls :
          /\ sv.calls[c] = "loop"
          /\ sv' = [sv EXCEPT !.calls[c] = "returned", !.running = TRUE]
    /\ UNCHANGED <<pipeline, el, px, ch, ts, wf, cn, cm>>

\* stop()
SchedulerStop ==
    /\ ProcessAlive
    /\ sv.running
    /\ sv' = [sv EXCEPT !.running = FALSE]
    /\ UNCHANGED <<pipeline, el, px, ch, ts, wf, cn, cm>>

InitScheduler == sv = SvStart /\ PipelineOff /\ el = Off /\ px = Off /\ ch = Off
                 /\ ts = Off /\ wf = Off /\ cn = Off /\ cm = Off

NextScheduler ==
    \/ SchedulerStart \/ SchedulerInitialize \/ SchedulerSchedule
    \/ SchedulerRunReturns \/ SchedulerStop

SpecScheduler == InitScheduler /\ [][NextScheduler]_vars

\* C28: over all start calls at most one TaskProcessor is created, and at
\* most one is running.
C28_StartIdempotent ==
    /\ sv.created <= 1
    /\ Cardinality(RunningProcessors) <= 1

(***************************************************************************)
(* Scheduled tasks: TaskManager.create_task stores the time of day          *)
(* converted from UTC+8 to UTC and the schedule day as given;               *)
(* TaskProcessor.create_cron_trigger builds the trigger from the stored     *)
(* values.  The scheduler has no timezone argument: its triggers fire in    *)
(* the zone of the server.                                                  *)
(***************************************************************************)
MinutesPerHour == 60

HoursPerDay == 24

EastEightHours == 8

WeekDays == <<"monday", "tuesday", "wednesday", "thursday", "friday", "saturday", "sunday">>

day_map ==
    [d \in {WeekDays[i] : i \in 1..7} |->
        CASE d = "monday" -> "mon" [] d = "tuesday" -> "tue" [] d = "wednesday" -> "wed"
          [] d = "thursday" -> "thu" [] d = "friday" -> "fri" [] d = "saturday" -> "sat"
          [] OTHER -> "sun"]

\* '%02d' and int() on it
ParseTwoDigits(str) == CHOOSE n \in 0..99 : TwoDigits(n) = str

FormatTime(hour, minute) == TwoDigits(hour) \o ":" \o TwoDigits(minute)

ParseHour(time_str) == ParseTwoDigits(SubSeq(time_str, 1, Find(time_str, ":") - 1))

ParseMinute(time_str) == ParseTwoDigits(SubSeq(time_str, Find(time_str, ":") + 1, Len(time_str)))

\* convert_east_eight_to_utc: today at HH:MM in UTC+8, moved to UTC, of which
\* only the time of day is kept
ConvertEastEightToUtc(time_str) ==
    FormatTime((ParseHour(time_str) - EastEightHours) % HoursPerDay, ParseMinute(time_str))

\* create_cron_trigger on the stored task
CreateCronTrigger(schedule_type, schedule_time_utc, schedule_day) ==
    LET hour == ParseHour(schedule_time_utc)
        minute == ParseMinute(schedule_time_utc)
    IN  CASE schedule_type = "weekly" ->
                [day_of_week |-> IF Lower(schedule_day) \in DOMAIN day_map
                                 THEN day_map[Lower(schedule_day)] ELSE "mon",
                 day |-> None, hour |-> hour, minute |-> minute]
          [] schedule_type = "monthly" ->
                [day_of_week |-> None,
                 day |-> IF schedule_day # "" THEN ParseTwoDigits(schedule_day) ELSE 1,
                 hour |-> hour, minute |-> minute]
          [] OTHER -> [day_of_week |-> None, day |-> None, hour |-> hour, minute |-> minute]

ScheduleHours == {0, 7, 8, 9, 23}

ScheduleMinutes == {0, 30, 59}

ScheduleDays ==
    [weekly |-> {WeekDays[i] : i \in 1..7} \cup {"Monday"}, monthly |-> {"01", "15", "28"},
     daily |-> {""}]

\* the offset from UTC of the zone the server runs in, in hours
ServerUtcOffsets == {0, EastEightHours}

CnStart ==
    [pc |-> "idle", schedule_type |-> "daily", schedule_day |-> "", schedule_time |-> "",
     stored_time |-> "", server_offset |-> 0, trigger |-> None, fire |-> None]

\* create_task with a schedule given in UTC+8: the row that is inserted
CronCreateTask ==
    /\ cn.pc = "idle"
    /\ \E ty \in {"daily", "weekly", "monthly"}, h \in ScheduleHours, m \in ScheduleMinutes,
          off \in ServerUtcOffsets :
          \E d \in ScheduleDays[ty] :
             cn' = [CnStart EXCEPT !.pc = "stored", !.schedule_type = ty, !.schedule_day = d,
                       !.schedule_time = FormatTime(h, m),
                       !.stored_time = ConvertEastEightToUtc(FormatTime(h, m)),
                       !.server_offset = off]
    /\ UNCHANGED <<pipeline, el, px, ch, ts, wf, sv, cm>>

\* the processor loads the row and builds its trigger
CronCreateTrigger ==
    /\ cn.pc = "stored"
    /\ cn' = [cn EXCEPT !.pc = "scheduled",
                        !.trigger = CreateCronTrigger(cn.schedule_type, cn.stored_time,
                                                      cn.schedule_day)]
    /\ UNCHANGED <<pipeline, el, px, ch, ts, wf, sv, cm>>

\* the trigger fires on its day at its hour and minute of the server's zone;
\* fire is that instant in UTC+8: the days after the trigger's day, the hour
\* and the minute
CronFire ==
    /\ cn.pc = "scheduled"
    /\ LET local == cn.trigger.hour * MinutesPerHour + cn.trigger.minute
           east_eight == local + (EastEightHours - cn.server_offset) * MinutesPerHour
           of_day == east_eight % (HoursPerDay * MinutesPerHour)
       IN  cn' = [cn EXCEPT !.pc = "fired",
                     !.fire = [days_later |-> east_eight \div (HoursPerDay * MinutesPerHour),
                               hour |-> of_day \div MinutesPerHour,
                               minute |-> of_day % MinutesPerHour]]
    /\ UNCHANGED <<pipeline, el, px, ch, ts, wf, sv, cm>>

CronReset ==
    /\ cn.pc = "fired"
    /\ cn' = CnStart
    /\ UNCHANGED <<pipeline, el, px, ch, ts, wf, sv, cm>>

InitCron == cn = CnStart /\ PipelineOff /\ el = Off /\ px = Off /\ ch = Off
            /\ ts = Off /\ wf = Off /\ sv = Off /\ cm = Off

NextCron == CronCreateTask \/ CronCreateTrigger \/ CronFire \/ CronReset

SpecCron == InitCron /\ [][NextCron]_vars

\* C29: with the scheduler working in UTC, the trigger of a weekly or monthly
\* task given as day D, HH:MM in UTC+8 is a trigger for day D and fires, in
\* UTC+8, on that day at HH:MM.
C29_FiresOnGivenDay ==
    (cn.pc = "fired" /\ cn.server_offset = 0 /\ cn.schedule_type \in {"weekly", "monthly"}) =>
        /\ cn.schedule_type = "weekly" => cn.trigger.day_of_week = day_map[Lower(cn.schedule_day)]
        /\ cn.schedule_type = "monthly" => cn.trigger.day = ParseTwoDigits(cn.schedule_day)
        /\ cn.fire = [days_later |-> 0, hour |-> ParseHour(cn.schedule_time),
                      minute |-> ParseMinute(cn.schedule_time)]

(***************************************************************************)
(* ConnectionManager of the web interface: active_connections is a list;    *)
(* broadcast walks it with `for connection in self.active_connections` and  *)
(* awaits a send for each, while websocket_endpoint connects and            *)
(* disconnects clients while a send is awaited (the only point at which     *)
(* broadcast yields the event loop).  A list iterator keeps an index.       *)
(***************************************************************************)
MaxConns == 3

Conns == 1..MaxConns

\* list.remove(x)
ListRemove(list, x) == SelectSeq(list, LAMBDA y : y # x)

SeqToSet(list) == {list[i] : i \in 1..Len(list)}

CmStart ==
    [pc |-> "idle", active_connections |-> <<>>, closed |-> {}, index |-> 0, connection |-> 0,
     disconnected_connections |-> <<>>, at_start |-> {}, gone |-> {}, delivered |-> {},
     failed |-> {}]

\* websocket_endpoint: manager.connect for a new client
WsConnect ==
    /\ cm.pc \in {"idle", "sending"}
    /\ \E c \in Conns :
          /\ c \notin SeqToSet(cm.active_connections) \cup cm.closed
          /\ cm' = [cm EXCEPT !.active_connections = Append(@, c)]
    /\ UNCHANGED <<pipeline, el, px, ch, ts, wf, sv, cn>>

\* websocket_endpoint: the client has left, `finally: manager.disconnect`
WsDisconnect ==
    /\ cm.pc \in {"idle", "sending"}
    /\ \E c \in SeqToSet(cm.active_connections) :
          cm' = [cm EXCEPT !.active_connections = ListRemove(@, c),
                           !.closed = @ \cup {c},
                           !.gone = IF cm.pc = "idle" THEN @ ELSE @ \cup {c}]
    /\ UNCHANGED <<pipeline, el, px, ch, ts, wf, sv, cn>>

\* broadcast is called with connections present: the loop starts
BroadcastBegin ==
    /\ cm.pc = "idle"
    /\ Len(cm.active_connections) > 0
    /\ cm' = [cm EXCEPT !.pc = "next", !.index = 0, !.disconnected_connections = <<>>,
                        !.at_start = SeqToSet(cm.active_connections), !.gone = {},
                        !.delivered = {}, !.failed = {}]
    /\ UNCHANGED <<pipeline, el, px, ch, ts, wf, sv, cn>>

\* the iterator hands out the element at its index, if the list has one
\* there, and the send is awaited
BroadcastNext ==
    /\ cm.pc = "next"
    /\ IF cm.index < Len(cm.active_connections)
       THEN cm' = [cm EXCEPT !.pc = "sending", !.index = @ + 1,
                            !.connection = cm.active_connections[cm.index + 1]]
       ELSE cm' = [cm EXCEPT !.pc = "removing"]
    /\ UNCHANGED <<pipeline, el, px, ch, ts, wf, sv, cn>>

\* the send returns, or raises and the connection is marked for removal; a
\* send to a client that is still there does not raise
BroadcastSent ==
    /\ cm.pc = "sending"
    /\ \E ok \in BOOLEAN :
          /\ cm.connection \notin cm.closed => ok
          /\ cm' = [cm EXCEPT !.pc = "next",
                       !.delivered = IF ok THEN @ \cup {cm.connection} ELSE @,
                       !.failed = IF ok THEN @ ELSE @ \cup {cm.connection},
                       !.disconnected_connections =
                           IF ok THEN @ ELSE Append(@, cm.connection)]
    /\ UNCHANGED <<pipeline, el, px, ch, ts, wf, sv, cn>>

\* the marked connections are removed
BroadcastRemove ==
    /\ cm.pc = "removing"
    /\ cm' = [cm EXCEPT !.pc = "done",
                 !.active_connections =
                     SelectSeq(@, LAMBDA y : y \notin SeqToSet(cm.disconnected_connections))]
    /\ UNCHANGED <<pipeline, el, px, ch, ts, wf, sv, cn>>

BroadcastReturn ==
    /\ cm.pc = "done"
    /\ cm' = [cm EXCEPT !.pc = "idle"]
    /\ UNCHANGED <<pipeline, el, px, ch, ts, wf, sv, cn>>

InitBroadcast == cm = CmStart /\ PipelineOff /\ el = Off /\ px = Off /\ ch = Off
                 /\ ts = Off /\ wf = Off /\ sv = Off /\ cn = Off

NextBroadcast ==
    \/ WsConnect \/ WsDisconnect \/ BroadcastBegin \/ BroadcastNext \/ BroadcastSent
    \/ BroadcastRemove \/ BroadcastReturn

SpecBroadcast == InitBroadcast /\ [][NextBroadcast]_vars

\* C30: when a broadcast ends, every connection that was in
\* active_connections at its start and did not disconnect meanwhile has been
\* sent the message; every connection whose send failed is out of the list
\* and no connection that stayed and was served has been removed.
C30_BroadcastReachesAll ==
    cm.pc = "done" =>
        /\ \A c \in cm.at_start \ cm.gone : c \in cm.delivered \cup cm.failed
        /\ \A c \in cm.failed : c \notin SeqToSet(cm.active_connections)
        /\ \A c \in cm.at_start \ (cm.gone \cup cm.failed) :
              c \in SeqToSet(cm.active_connections)

\* the same statement for scrape_blog_articles, whose loop sleeps before
\* every source but the first
BatchDelayBetweenSources ==
    bt.i > 0 => bt.delays = bt.i - 1

====
